---- MODULE Spec2Model ----
(***************************************************************************)
(* Chalawa: Diffie-Hellman key agreement and AES-256-GCM encryption in     *)
(* transit, Dart (Flutter) client and TypeScript (Node.js) backend.        *)
(*                                                                         *)
(* Representation.  A string is a sequence of code points, a byte string   *)
(* a sequence of 0..255.  A call that throws returns [ok |-> FALSE, ...]   *)
(* with the kind of the first exception raised inside it.                  *)
(*                                                                         *)
(* Scale.  The 2048-bit group prime is scaled to the 9-bit safe prime 263  *)
(* (263 = 2*131+1 and 263 = 7 mod 8, so 2 generates the subgroup of order  *)
(* q as in the original group; 263 needs two bytes, so leading zero bytes  *)
(* of group elements exist).  Hash functions, AES and GHASH are replaced   *)
(* by deterministic mixing functions with the original output widths.      *)
(***************************************************************************)
EXTENDS Integers, Sequences, FiniteSets, TLC

VARIABLES keyPair, genIn, secretCall, implOf, kp, secret, sent, wire, recv,
          validated, sessionPassword, tasks, frames, resample

vars == <<keyPair, genIn, secretCall, implOf, kp, secret, sent, wire, recv,
          validated, sessionPassword, tasks, frames, resample>>

None == "none"

\* an optional string that is absent (null / undefined)
Absent == <<-1>>

----------------------------------------------------------------------------
(* Bounds of the model *)

\* longest plaintext, in characters
MaxPlainLen == 2
\* longest plaintext of a session message and of a tampered message
MaxWirePlainLen == 1
\* longest password, in characters
MaxPasswordLen == 1
\* IV draws are numbered 0..MaxIvSeed
MaxIvSeed == 1
\* clock readings (Date.now / DateTime.now) are 0..MaxClock
MaxClock == 1
\* session draws are taken up to MaxSessionDraw from either end of the range
MaxSessionDraw == 5
\* strings handed to validatePublicKey are up to MaxShortKeyLen characters
\* long, or within MaxKeyLenDelta characters of the two limits
MaxShortKeyLen == 2
MaxKeyLenDelta == 3

\* the count of the values the loop of generateDHKeyPair has drawn is kept
\* up to this number
MaxResample == 3

----------------------------------------------------------------------------
(* Characters *)

Quote     == 34
Backslash == 92
Colon     == 58
Newline   == 10
Equals    == 61

IsDigit(c)    == c >= 48 /\ c <= 57
IsLowerHex(c) == c >= 97 /\ c <= 102
IsUpperHex(c) == c >= 65 /\ c <= 70
IsHexChar(c)  == IsDigit(c) \/ IsLowerHex(c) \/ IsUpperHex(c)

\* value of one hexadecimal digit
HexDigitValue(c) ==
    IF IsDigit(c) THEN c - 48
    ELSE IF IsLowerHex(c) THEN c - 87
    ELSE c - 55

\* lowercase hexadecimal digit of a value 0..15
HexDigitChar(v) == IF v < 10 THEN 48 + v ELSE 87 + v

Min(a, b) == IF a < b THEN a ELSE b

SubSeqFrom(s, i) == SubSeq(s, i, Len(s))

----------------------------------------------------------------------------
(* Bit operations on bytes *)

RECURSIVE XorBits(_, _, _)
XorBits(a, b, n) ==
    IF n = 0 THEN 0
    ELSE ((a + b) % 2) + 2 * XorBits(a \div 2, b \div 2, n - 1)

Xor(a, b) == XorBits(a, b, 8)

RECURSIVE Pow2(_)
Pow2(n) == IF n = 0 THEN 1 ELSE 2 * Pow2(n - 1)

\* byte b with bit k (0 = least significant) inverted
FlipBit(b, k) == Xor(b, Pow2(k))

----------------------------------------------------------------------------
(* Hash functions: deterministic mixing functions standing in for SHA-256  *)
(* and SHA-512, with the digest widths of the originals.                   *)

SHA256Len == 32
SHA512Len == 64

\* sum of F(lo) .. F(hi)
RECURSIVE SumRange(_, _, _)
SumRange(F(_), lo, hi) ==
    IF lo > hi THEN 0
    ELSE IF lo = hi THEN F(lo)
    ELSE LET mid == (lo + hi) \div 2
         IN  SumRange(F, lo, mid) + SumRange(F, mid + 1, hi)

\* concatenation of the sequences F(lo) .. F(hi)
RECURSIVE ConcatRange(_, _, _)
ConcatRange(F(_), lo, hi) ==
    IF lo > hi THEN <<>>
    ELSE IF lo = hi THEN F(lo)
    ELSE LET mid == (lo + hi) \div 2
         IN  ConcatRange(F, lo, mid) \o ConcatRange(F, mid + 1, hi)

MixWeight(i) == 1 + ((7 * i * i + 13 * i) % 251)

Mix(bytes) ==
    LET Term(i) == (bytes[i] + 1) * MixWeight(i)
    IN  (7 + 31 * Len(bytes) + SumRange(Term, 1, Len(bytes))) % 65521

Digest(salt, bytes, n) ==
    LET h == Mix(bytes)
    IN  [i \in 1..n |-> ((h + salt) * (2 * i + 1) + (h \div 256) + i) % 256]

sha256(bytes) == Digest(1, bytes, SHA256Len)
sha512(bytes) == Digest(2, bytes, SHA512Len)

\* Digest.toString() / Buffer.toString('hex'): two lowercase digits a byte
bytesToHex(bytes) ==
    [i \in 1..(2 * Len(bytes)) |->
        LET b == bytes[(i + 1) \div 2]
        IN  HexDigitChar(IF i % 2 = 1 THEN b \div 16 ELSE b % 16)]

\* utf8.encode / Buffer.from(s, 'utf-8') of code points below 0x800
Utf8Char(c) ==
    IF c < 128 THEN <<c>> ELSE <<192 + (c \div 64), 128 + (c % 64)>>

utf8Encode(s) ==
    LET Enc(i) == Utf8Char(s[i])
    IN  ConcatRange(Enc, 1, Len(s))

----------------------------------------------------------------------------
(* Big integers and hexadecimal (diffie_hellman.dart)                      *)

\* BigInt.parse(hex, radix: 16) accepts a non-empty run of hex digits
hexIsBigInt(hex) ==
    /\ Len(hex) > 0
    /\ \A i \in 1..Len(hex) : IsHexChar(hex[i])

RECURSIVE HexValueFrom(_, _, _)
HexValueFrom(acc, hex, i) ==
    IF i > Len(hex) THEN acc
    ELSE HexValueFrom(acc * 16 + HexDigitValue(hex[i]), hex, i + 1)

hexToBigInt(hex) == HexValueFrom(0, hex, 1)

RECURSIVE bigIntToHex(_)
bigIntToHex(value) ==
    IF value < 16 THEN <<HexDigitChar(value)>>
    ELSE Append(bigIntToHex(value \div 16), HexDigitChar(value % 16))

\* int.parse(pair, radix: 16) accepts two hex digits, or a sign and a digit
hexPairIsInt(c1, c2) ==
    /\ IsHexChar(c2)
    /\ IsHexChar(c1) \/ c1 = 43 \/ c1 = 45

hexPairByte(c1, c2) ==
    IF c1 = 43 THEN HexDigitValue(c2)
    ELSE IF c1 = 45 THEN (256 - HexDigitValue(c2)) % 256
    ELSE 16 * HexDigitValue(c1) + HexDigitValue(c2)

hexPadded(hex) == IF Len(hex) % 2 # 0 THEN <<48>> \o hex ELSE hex

hexToBytesThrows(hex) ==
    LET h == hexPadded(hex)
    IN  \E i \in 1..(Len(h) \div 2) : ~hexPairIsInt(h[2 * i - 1], h[2 * i])

hexToBytes(hex) ==
    LET h == hexPadded(hex)
    IN  [i \in 1..(Len(h) \div 2) |-> hexPairByte(h[2 * i - 1], h[2 * i])]

RECURSIVE modPow(_, _, _)
modPow(b, e, m) ==
    IF m = 1 THEN 0
    ELSE IF e = 0 THEN 1
    ELSE LET half == modPow(b % m, e \div 2, m)
             sq   == (half * half) % m
         IN  IF e % 2 = 1 THEN (sq * (b % m)) % m ELSE sq

----------------------------------------------------------------------------
(* Buffers and big numbers of the Node.js runtime (diffie-hellman.ts)      *)

\* Buffer.from(s, 'hex') stops at the first pair that is not two hex digits
\* and drops an unpaired last digit
hexPrefixPairs(s) ==
    LET bad == {i \in 1..(Len(s) \div 2) :
                   ~(IsHexChar(s[2 * i - 1]) /\ IsHexChar(s[2 * i]))}
    IN  IF bad = {} THEN Len(s) \div 2
        ELSE (CHOOSE i \in bad : \A j \in bad : i <= j) - 1

bufferFromHex(s) ==
    [i \in 1..hexPrefixPairs(s) |->
        16 * HexDigitValue(s[2 * i - 1]) + HexDigitValue(s[2 * i])]

\* big-endian value of a buffer
RECURSIVE BytesValueFrom(_, _, _)
BytesValueFrom(acc, bytes, i) ==
    IF i > Len(bytes) THEN acc
    ELSE BytesValueFrom(acc * 256 + bytes[i], bytes, i + 1)

bufferToBigNum(bytes) == BytesValueFrom(0, bytes, 1)

\* BN_bn2bin: big-endian bytes without leading zeros (empty for zero)
RECURSIVE bigNumToBuffer(_)
bigNumToBuffer(value) ==
    IF value = 0 THEN <<>>
    ELSE Append(bigNumToBuffer(value \div 256), value % 256)

padLeftZero(bytes, n) ==
    [i \in 1..(IF Len(bytes) > n THEN Len(bytes) ELSE n) |->
        IF i <= n - Len(bytes) THEN 0
        ELSE bytes[i - (IF n > Len(bytes) THEN n - Len(bytes) ELSE 0)]]

----------------------------------------------------------------------------
(* Results of calls that may throw.  The error kinds name the exception    *)
(* raised first inside the call:                                           *)
(*   FormatError          ArgumentError / Error('Invalid encrypted text    *)
(*                        format')                                         *)
(*   DecodeError          FormatException of base64.decode, int.parse,     *)
(*                        BigInt.parse, utf8.decode                        *)
(*   InvalidKey           'Supplied key is too small / too large'          *)
(*   AuthenticationError  InvalidCipherTextException / 'unable to          *)
(*                        authenticate data'                               *)
(*   ParseError           FormatException of jsonDecode / SyntaxError      *)

Ok(v)      == [ok |-> TRUE,  value |-> v,    err |-> None]
Throw(e)   == [ok |-> FALSE, value |-> <<>>, err |-> e]

----------------------------------------------------------------------------
(* The Diffie-Hellman group *)

\* _prime2048 / PRIME_2048, scaled
Prime == 2 * 131 + 1
\* bit length of the prime: the argument of _generateRandomBigInt
PrimeBits == 9
\* DH_size: byte length of the prime
PrimeBytes == (PrimeBits + 7) \div 8
generator == 2
\* order of the subgroup generated by 2
GroupOrder == (Prime - 1) \div 2

\* width in bytes of a SHA-256 digest where it is read as a number of the
\* group: 256 bits against a 2048-bit prime, 8 bits against the 9-bit prime
GroupHashLen == 1
\* The digest that becomes a private key.  A SHA-256 digest is below 2^256,
\* far below the group order, and no input with the digest zero can be
\* computed: the scaled digest lies in 1..GroupOrder - 2, so that digest and
\* digest + 1 are exponents below the group order, as in the original.
sha256Group(bytes) ==
    LET d == bufferToBigNum(Digest(1, bytes, GroupHashLen))
    IN  padLeftZero(bigNumToBuffer(1 + (d % (GroupOrder - 2))), GroupHashLen)

\* int.toString() / Number.prototype.toString() of a non-negative integer
RECURSIVE intToString(_)
intToString(n) ==
    IF n < 10 THEN <<48 + n>>
    ELSE Append(intToString(n \div 10), 48 + (n % 10))

\* _generateRandomBigInt(bitLength): any value of (bitLength + 7) ~/ 8 bytes
generateRandomBigInt(bitLength) ==
    0..(Pow2(8 * ((bitLength + 7) \div 8)) - 1)

\* values that leave the loop  do {...} while (privateKey >= prime ||
\* privateKey <= BigInt.one)
dartPrivateKeyDraws ==
    {d \in generateRandomBigInt(PrimeBits) : ~(d >= Prime \/ d <= 1)}

\* dh.generateKeys() of the runtime: private exponent in [1, q - 1]
tsPrivateKeyDraws == 1..(GroupOrder - 1)

----------------------------------------------------------------------------
(* generateDHKeyPair *)

\* generateDHKeyPairDart returning, with a password, the public key of the
\* first random private key next to the enhanced private key
generateDHKeyPairDartStale(password, draw, clock) ==
    LET publicKey == modPow(generator, draw, Prime)
    IN  IF password # Absent
        THEN LET passwordHash == sha256(utf8Encode(password \o intToString(clock)))
                 combined     == hexToBytes(bigIntToHex(draw)) \o passwordHash
                 enhancedPrivateKey ==
                     hexToBigInt(bytesToHex(sha256Group(combined)))
                 validPrivateKey == (enhancedPrivateKey % (Prime - 1)) + 1
             IN  [privateKey |-> bigIntToHex(validPrivateKey),
                  publicKey  |-> bigIntToHex(publicKey)]
        ELSE [privateKey |-> bigIntToHex(draw),
              publicKey  |-> bigIntToHex(publicKey)]

\* generateDHKeyPairDart mixing the password hash alone into the enhanced
\* private key, without the bytes of the random private key
generateDHKeyPairDartUnmixed(password, draw, clock) ==
    LET publicKey == modPow(generator, draw, Prime)
    IN  IF password # Absent
        THEN LET passwordHash == sha256(utf8Encode(password \o intToString(clock)))
                 enhancedPrivateKey ==
                     hexToBigInt(bytesToHex(sha256Group(passwordHash)))
                 validPrivateKey == (enhancedPrivateKey % (Prime - 1)) + 1
             IN  [privateKey |-> bigIntToHex(validPrivateKey),
                  publicKey  |-> bigIntToHex(modPow(generator, validPrivateKey,
                                                    Prime))]
        ELSE [privateKey |-> bigIntToHex(draw),
              publicKey  |-> bigIntToHex(publicKey)]

generateDHKeyPairDart(password, draw, clock) ==
    LET privateKey == draw
        publicKey  == modPow(generator, privateKey, Prime)
    IN  IF password # Absent
        THEN LET passwordHash    == sha256(utf8Encode(password \o intToString(clock)))
                 privateKeyBytes == hexToBytes(bigIntToHex(privateKey))
                 combined        == privateKeyBytes \o passwordHash
                 enhancedHash    == sha256Group(combined)
                 enhancedPrivateKey == hexToBigInt(bytesToHex(enhancedHash))
                 validPrivateKey == (enhancedPrivateKey % (Prime - 1)) + 1
                 enhancedPublicKey == modPow(generator, validPrivateKey, Prime)
             IN  [privateKey |-> bigIntToHex(validPrivateKey),
                  publicKey  |-> bigIntToHex(enhancedPublicKey)]
        ELSE [privateKey |-> bigIntToHex(privateKey),
              publicKey  |-> bigIntToHex(publicKey)]

\* a JavaScript string is truthy unless it is undefined or empty
Truthy(password) == password # Absent /\ password # <<>>

\* generateDHKeyPairTS returning, with a password, the public key of the
\* runtime's private key next to the enhanced private key
generateDHKeyPairTSStale(password, draw, clock) ==
    LET privateKey == bigNumToBuffer(draw)
        publicKey  == bigNumToBuffer(modPow(generator, draw, Prime))
    IN  IF Truthy(password)
        THEN LET passwordHash == sha256(utf8Encode(password \o intToString(clock)))
                 enhancedPrivateKey == sha256Group(privateKey \o passwordHash)
             IN  [privateKey |-> bytesToHex(enhancedPrivateKey),
                  publicKey  |-> bytesToHex(publicKey)]
        ELSE [privateKey |-> bytesToHex(privateKey),
              publicKey  |-> bytesToHex(publicKey)]

generateDHKeyPairTS(password, draw, clock) ==
    LET privateKey == bigNumToBuffer(draw)
        publicKey  == bigNumToBuffer(modPow(generator, draw, Prime))
    IN  IF Truthy(password)
        THEN LET passwordHash == sha256(utf8Encode(password \o intToString(clock)))
                 enhancedPrivateKey == sha256Group(privateKey \o passwordHash)
                 enhancedPublicKey ==
                     bigNumToBuffer(modPow(generator,
                                           bufferToBigNum(enhancedPrivateKey), Prime))
             IN  [privateKey |-> bytesToHex(enhancedPrivateKey),
                  publicKey  |-> bytesToHex(enhancedPublicKey)]
        ELSE [privateKey |-> bytesToHex(privateKey),
              publicKey  |-> bytesToHex(publicKey)]

generateDHKeyPair(impl, password, draw, clock) ==
    IF impl = "dart" THEN generateDHKeyPairDart(password, draw, clock)
    ELSE generateDHKeyPairTS(password, draw, clock)

----------------------------------------------------------------------------
(* computeSharedSecret *)

\* computeSharedSecretDart with base and exponent exchanged:
\* privateKey.modPow(otherPublicKey, prime)
computeSharedSecretDartSwapped(privateKeyHex, otherPublicKeyHex, password) ==
    IF ~hexIsBigInt(privateKeyHex) \/ ~hexIsBigInt(otherPublicKeyHex)
    THEN Throw("DecodeError")
    ELSE LET sharedSecret == modPow(hexToBigInt(privateKeyHex),
                                    hexToBigInt(otherPublicKeyHex), Prime)
             sharedSecretBytes == hexToBytes(bigIntToHex(sharedSecret))
         IN  IF password # Absent
             THEN Ok(bytesToHex(sha512(sharedSecretBytes \o utf8Encode(password))))
             ELSE Ok(bytesToHex(sha256(sharedSecretBytes)))

computeSharedSecretDart(privateKeyHex, otherPublicKeyHex, password) ==
    IF ~hexIsBigInt(privateKeyHex) \/ ~hexIsBigInt(otherPublicKeyHex)
    THEN Throw("DecodeError")
    ELSE LET privateKey     == hexToBigInt(privateKeyHex)
             otherPublicKey == hexToBigInt(otherPublicKeyHex)
             sharedSecret   == modPow(otherPublicKey, privateKey, Prime)
             sharedSecretBytes == hexToBytes(bigIntToHex(sharedSecret))
         IN  IF password # Absent
             THEN Ok(bytesToHex(sha512(sharedSecretBytes \o utf8Encode(password))))
             ELSE Ok(bytesToHex(sha256(sharedSecretBytes)))

\* dh.computeSecret: DH_check_pub_key rejects a key <= 1 or >= p - 1, and
\* the secret is left-padded with zeros to the byte length of the prime
computeSecret(privateKey, otherPublicKey) ==
    IF otherPublicKey <= 1 \/ otherPublicKey >= Prime - 1
    THEN Throw("InvalidKey")
    ELSE Ok(padLeftZero(bigNumToBuffer(modPow(otherPublicKey, privateKey, Prime)),
                        PrimeBytes))

computeSharedSecretTS(privateKeyHex, otherPublicKeyHex, password) ==
    LET privateKey     == bufferToBigNum(bufferFromHex(privateKeyHex))
        otherPublicKey == bufferToBigNum(bufferFromHex(otherPublicKeyHex))
        sharedSecret   == computeSecret(privateKey, otherPublicKey)
    IN  IF ~sharedSecret.ok THEN sharedSecret
        ELSE IF Truthy(password)
             THEN Ok(bytesToHex(sha512(sharedSecret.value \o utf8Encode(password))))
             ELSE Ok(bytesToHex(sha256(sharedSecret.value)))

computeSharedSecret(impl, privateKeyHex, otherPublicKeyHex, password) ==
    IF impl = "dart"
    THEN computeSharedSecretDart(privateKeyHex, otherPublicKeyHex, password)
    ELSE computeSharedSecretTS(privateKeyHex, otherPublicKeyHex, password)

----------------------------------------------------------------------------
(* validatePublicKey *)

MinKeyBytes == 100
MaxKeyBytes == 1000

\* validatePublicKeyDartAt accepting a key of exactly minBytes bytes
validatePublicKeyDartAtLeast(publicKey, minBytes, maxBytes) ==
    IF hexToBytesThrows(publicKey) THEN FALSE
    ELSE LET keyBytes == hexToBytes(publicKey)
         IN  Len(keyBytes) >= minBytes /\ Len(keyBytes) < maxBytes

\* diffie_hellman.dart 126-134 with the two lengths of line 130 as
\* parameters: a throw of _hexToBytes is caught and gives false
validatePublicKeyDartAt(publicKey, minBytes, maxBytes) ==
    IF hexToBytesThrows(publicKey) THEN FALSE
    ELSE LET keyBytes == hexToBytes(publicKey)
         IN  Len(keyBytes) > minBytes /\ Len(keyBytes) < maxBytes

\* diffie-hellman.ts 98-106: Buffer.from never throws on a string
validatePublicKeyTSAt(publicKey, minBytes, maxBytes) ==
    LET keyBuffer == bufferFromHex(publicKey)
    IN  Len(keyBuffer) > minBytes /\ Len(keyBuffer) < maxBytes

validatePublicKeyAt(impl, publicKey, minBytes, maxBytes) ==
    IF impl = "dart" THEN validatePublicKeyDartAt(publicKey, minBytes, maxBytes)
    ELSE validatePublicKeyTSAt(publicKey, minBytes, maxBytes)

\* the two limits in the scaled group: a key of the prime's byte length is
\* inside them and a key with PrimeBytes - 1 bytes or fewer is not, as 256
\* bytes are inside 100..1000 and 100 bytes or fewer are not
GroupMinKeyBytes == PrimeBytes - 1
GroupMaxKeyBytes == 4 * PrimeBytes

validatePublicKey(impl, publicKey) ==
    validatePublicKeyAt(impl, publicKey, MinKeyBytes, MaxKeyBytes)

----------------------------------------------------------------------------
(* JSON string documents (jsonEncode / jsonDecode, JSON.parse)             *)

jsonEscapeChar(c) ==
    IF c = Quote THEN <<Backslash, Quote>>
    ELSE IF c = Backslash THEN <<Backslash, Backslash>>
    ELSE IF c = 8 THEN <<Backslash, 98>>
    ELSE IF c = 9 THEN <<Backslash, 116>>
    ELSE IF c = 10 THEN <<Backslash, 110>>
    ELSE IF c = 12 THEN <<Backslash, 102>>
    ELSE IF c = 13 THEN <<Backslash, 114>>
    ELSE IF c < 32
         THEN <<Backslash, 117, 48, 48, HexDigitChar(c \div 16), HexDigitChar(c % 16)>>
    ELSE <<c>>

jsonEscape(s) ==
    LET Esc(i) == jsonEscapeChar(s[i])
    IN  ConcatRange(Esc, 1, Len(s))

\* jsonEncode of a String
jsonEncode(s) == <<Quote>> \o jsonEscape(s) \o <<Quote>>

IsJsonSpace(c) == c \in {32, 9, 10, 13}

RECURSIVE skipSpace(_, _)
skipSpace(t, i) ==
    IF i <= Len(t) /\ IsJsonSpace(t[i]) THEN skipSpace(t, i + 1) ELSE i

simpleEscape(c) ==
    CASE c = Quote -> Quote
      [] c = Backslash -> Backslash
      [] c = 47 -> 47
      [] c = 98 -> 8
      [] c = 102 -> 12
      [] c = 110 -> 10
      [] c = 114 -> 13
      [] c = 116 -> 9
      [] OTHER -> -1

\* the characters of a string literal from position i (after the opening
\* quote) to its closing quote; pos = 0 when the literal is malformed
RECURSIVE parseStringBody(_, _, _)
parseStringBody(t, i, acc) ==
    IF i > Len(t) THEN [pos |-> 0, str |-> <<>>]
    ELSE IF t[i] = Quote THEN [pos |-> i + 1, str |-> acc]
    ELSE IF t[i] < 32 THEN [pos |-> 0, str |-> <<>>]
    ELSE IF t[i] # Backslash THEN parseStringBody(t, i + 1, Append(acc, t[i]))
    ELSE IF i + 1 > Len(t) THEN [pos |-> 0, str |-> <<>>]
    ELSE IF t[i + 1] = 117
         THEN IF i + 5 <= Len(t) /\ \A k \in 2..5 : IsHexChar(t[i + k])
              THEN parseStringBody(t, i + 6,
                       Append(acc, hexToBigInt(SubSeq(t, i + 2, i + 5))))
              ELSE [pos |-> 0, str |-> <<>>]
    ELSE IF simpleEscape(t[i + 1]) >= 0
         THEN parseStringBody(t, i + 2, Append(acc, simpleEscape(t[i + 1])))
    ELSE [pos |-> 0, str |-> <<>>]

\* JSON values.  A string is the sequence of its characters; every other
\* value is a sequence that starts with a negative tag: null, a boolean, an
\* integer, an array of values, an object of <<key, value>> pairs in
\* insertion order.
JsonNull == <<-2>>
JsonTrue == <<-3, 1>>
JsonFalse == <<-3, 0>>
JsonNumber(n) == <<-4, n>>
JsonArray(items) == <<-5>> \o items
JsonObject(members) == <<-6>> \o members
JsonTag(v) == IF Len(v) > 0 /\ v[1] < 0 THEN v[1] ELSE -1

NullWord  == <<110, 117, 108, 108>>
TrueWord  == <<116, 114, 117, 101>>
FalseWord == <<102, 97, 108, 115, 101>>
Comma == 44
Minus == 45

\* QuoteJSONString of JSON.stringify, one character
jsonQuoteChar(c) ==
    CASE c = 8 -> <<Backslash, 98>>
      [] c = 9 -> <<Backslash, 116>>
      [] c = 10 -> <<Backslash, 110>>
      [] c = 12 -> <<Backslash, 102>>
      [] c = 13 -> <<Backslash, 114>>
      [] c = Quote -> <<Backslash, Quote>>
      [] c = Backslash -> <<Backslash, Backslash>>
      [] OTHER ->
           IF c < 32
           THEN <<Backslash, 117, 48, 48, HexDigitChar(c \div 16),
                  HexDigitChar(c % 16)>>
           ELSE <<c>>

jsonQuote(str) ==
    LET Q(i) == jsonQuoteChar(str[i])
    IN  <<Quote>> \o ConcatRange(Q, 1, Len(str)) \o <<Quote>>

\* Number.prototype.toString of an integer
numberToString(n) ==
    IF n < 0 THEN <<Minus>> \o intToString(0 - n) ELSE intToString(n)

\* JSON.stringify(value), without indentation
RECURSIVE jsonStringify(_)
jsonStringify(v) ==
    CASE JsonTag(v) = -1 -> jsonQuote(v)
      [] JsonTag(v) = -2 -> NullWord
      [] JsonTag(v) = -3 -> IF v[2] = 1 THEN TrueWord ELSE FalseWord
      [] JsonTag(v) = -4 -> numberToString(v[2])
      [] JsonTag(v) = -5 ->
           LET Item(i) == (IF i > 2 THEN <<Comma>> ELSE <<>>)
                              \o jsonStringify(v[i])
           IN  <<91>> \o ConcatRange(Item, 2, Len(v)) \o <<93>>
      [] JsonTag(v) = -6 ->
           LET Member(i) == (IF i > 2 THEN <<Comma>> ELSE <<>>)
                                \o jsonQuote(v[i][1]) \o <<Colon>>
                                \o jsonStringify(v[i][2])
           IN  <<123>> \o ConcatRange(Member, 2, Len(v)) \o <<125>>

IsWordAt(t, i, word) ==
    i + Len(word) - 1 <= Len(t) /\ SubSeq(t, i, i + Len(word) - 1) = word

\* the digits of an integer from position i
RECURSIVE parseDigits(_, _, _)
parseDigits(t, i, acc) ==
    IF i <= Len(t) /\ IsDigit(t[i])
    THEN parseDigits(t, i + 1, acc * 10 + (t[i] - 48))
    ELSE [pos |-> i, num |-> acc]

\* an integer literal from position i: an optional minus, then 0 or a digit
\* from 1 to 9 followed by digits; a fraction or an exponent is left unread
parseNumber(t, i) ==
    LET neg   == i <= Len(t) /\ t[i] = Minus
        first == IF neg THEN i + 1 ELSE i
    IN  IF first > Len(t) \/ ~IsDigit(t[first]) THEN [pos |-> 0, val |-> <<>>]
        ELSE IF t[first] = 48 THEN [pos |-> first + 1, val |-> JsonNumber(0)]
        ELSE LET d == parseDigits(t, first, 0)
             IN  [pos |-> d.pos,
                  val |-> JsonNumber(IF neg THEN 0 - d.num ELSE d.num)]

\* the value that starts at position i (after white space), and the
\* position after it; pos = 0 when there is no value
RECURSIVE parseValue(_, _), parseItems(_, _, _), parseMembers(_, _, _)
parseValue(t, i0) ==
    LET i == skipSpace(t, i0)
    IN  IF i > Len(t) THEN [pos |-> 0, val |-> <<>>]
        ELSE IF t[i] = Quote
             THEN LET body == parseStringBody(t, i + 1, <<>>)
                  IN  [pos |-> body.pos, val |-> body.str]
        ELSE IF IsWordAt(t, i, NullWord) THEN [pos |-> i + 4, val |-> JsonNull]
        ELSE IF IsWordAt(t, i, TrueWord) THEN [pos |-> i + 4, val |-> JsonTrue]
        ELSE IF IsWordAt(t, i, FalseWord) THEN [pos |-> i + 5, val |-> JsonFalse]
        ELSE IF t[i] = 91
             THEN LET j == skipSpace(t, i + 1)
                  IN  IF j <= Len(t) /\ t[j] = 93
                      THEN [pos |-> j + 1, val |-> JsonArray(<<>>)]
                      ELSE parseItems(t, i + 1, <<>>)
        ELSE IF t[i] = 123
             THEN LET j == skipSpace(t, i + 1)
                  IN  IF j <= Len(t) /\ t[j] = 125
                      THEN [pos |-> j + 1, val |-> JsonObject(<<>>)]
                      ELSE parseMembers(t, i + 1, <<>>)
        ELSE parseNumber(t, i)

\* the items of an array from position i, up to the closing bracket
parseItems(t, i, acc) ==
    LET item == parseValue(t, i)
        j    == skipSpace(t, item.pos)
    IN  IF item.pos = 0 \/ j > Len(t) THEN [pos |-> 0, val |-> <<>>]
        ELSE IF t[j] = 93
             THEN [pos |-> j + 1, val |-> JsonArray(Append(acc, item.val))]
        ELSE IF t[j] = Comma THEN parseItems(t, j + 1, Append(acc, item.val))
        ELSE [pos |-> 0, val |-> <<>>]

\* the members of an object from position i, up to the closing brace; a
\* key that comes again replaces the value of the earlier member
parseMembers(t, i, acc) ==
    LET k     == skipSpace(t, i)
        key   == IF k <= Len(t) /\ t[k] = Quote
                 THEN parseStringBody(t, k + 1, <<>>)
                 ELSE [pos |-> 0, str |-> <<>>]
        c     == skipSpace(t, key.pos)
        value == IF key.pos # 0 /\ c <= Len(t) /\ t[c] = Colon
                 THEN parseValue(t, c + 1)
                 ELSE [pos |-> 0, val |-> <<>>]
        j     == skipSpace(t, value.pos)
        same  == {n \in 1..Len(acc) : acc[n][1] = key.str}
        next  == IF same = {} THEN Append(acc, <<key.str, value.val>>)
                 ELSE [n \in 1..Len(acc) |->
                          IF n \in same THEN <<key.str, value.val>> ELSE acc[n]]
    IN  IF value.pos = 0 \/ j > Len(t) THEN [pos |-> 0, val |-> <<>>]
        ELSE IF t[j] = 125 THEN [pos |-> j + 1, val |-> JsonObject(next)]
        ELSE IF t[j] = Comma THEN parseMembers(t, j + 1, next)
        ELSE [pos |-> 0, val |-> <<>>]

\* jsonDecode / JSON.parse
jsonDecode(t) ==
    LET doc == parseValue(t, 1)
    IN  IF doc.pos = 0 THEN Throw("ParseError")
        ELSE IF skipSpace(t, doc.pos) <= Len(t) THEN Throw("ParseError")
        ELSE Ok(doc.val)

\* utf8.decode (strict) of sequences of one and two bytes
RECURSIVE utf8DecodeFrom(_, _, _)
utf8DecodeFrom(bytes, i, acc) ==
    IF i > Len(bytes) THEN Ok(acc)
    ELSE IF bytes[i] < 128 THEN utf8DecodeFrom(bytes, i + 1, Append(acc, bytes[i]))
    ELSE IF /\ bytes[i] >= 194 /\ bytes[i] <= 223
            /\ i + 1 <= Len(bytes)
            /\ bytes[i + 1] >= 128 /\ bytes[i + 1] <= 191
         THEN utf8DecodeFrom(bytes, i + 2,
                  Append(acc, (bytes[i] - 192) * 64 + (bytes[i + 1] - 128)))
    ELSE Throw("DecodeError")

utf8Decode(bytes) == utf8DecodeFrom(bytes, 1, <<>>)

\* Buffer.toString('utf-8') / decipher output decoding: malformed input
\* becomes U+FFFD instead of an error
RECURSIVE utf8DecodeLossyFrom(_, _, _)
utf8DecodeLossyFrom(bytes, i, acc) ==
    IF i > Len(bytes) THEN acc
    ELSE IF bytes[i] < 128
         THEN utf8DecodeLossyFrom(bytes, i + 1, Append(acc, bytes[i]))
    ELSE IF /\ bytes[i] >= 194 /\ bytes[i] <= 223
            /\ i + 1 <= Len(bytes)
            /\ bytes[i + 1] >= 128 /\ bytes[i + 1] <= 191
         THEN utf8DecodeLossyFrom(bytes, i + 2,
                  Append(acc, (bytes[i] - 192) * 64 + (bytes[i + 1] - 128)))
    ELSE utf8DecodeLossyFrom(bytes, i + 1, Append(acc, 65533))

utf8DecodeLossy(bytes) == utf8DecodeLossyFrom(bytes, 1, <<>>)

----------------------------------------------------------------------------
(* Base64 *)

\* character of a 6-bit value in the standard alphabet
base64Char(v) ==
    IF v < 26 THEN 65 + v
    ELSE IF v < 52 THEN 97 + (v - 26)
    ELSE IF v < 62 THEN 48 + (v - 52)
    ELSE IF v = 62 THEN 43
    ELSE 47

\* 6-bit value of a character of the standard or the URL-safe alphabet,
\* -1 for any other character
base64Value(c) ==
    IF c >= 65 /\ c <= 90 THEN c - 65
    ELSE IF c >= 97 /\ c <= 122 THEN c - 97 + 26
    ELSE IF c >= 48 /\ c <= 57 THEN c - 48 + 52
    ELSE IF c = 43 \/ c = 45 THEN 62
    ELSE IF c = 47 \/ c = 95 THEN 63
    ELSE -1

ByteAt(bytes, i) == IF i <= Len(bytes) THEN bytes[i] ELSE 0

\* base64.encode / Buffer.toString('base64')
base64Encode(bytes) ==
    LET n == Len(bytes)
    IN  [i \in 1..(4 * ((n + 2) \div 3)) |->
            LET g  == (i - 1) \div 4
                k  == (i - 1) % 4
                b1 == ByteAt(bytes, 3 * g + 1)
                b2 == ByteAt(bytes, 3 * g + 2)
                b3 == ByteAt(bytes, 3 * g + 3)
            IN  IF k = 0 THEN base64Char(b1 \div 4)
                ELSE IF k = 1 THEN base64Char((b1 % 4) * 16 + (b2 \div 16))
                ELSE IF k = 2
                     THEN IF 3 * g + 2 > n THEN Equals
                          ELSE base64Char((b2 % 16) * 4 + (b3 \div 64))
                ELSE IF 3 * g + 3 > n THEN Equals
                     ELSE base64Char(b3 % 64)]

\* bytes of a run of 6-bit values; an incomplete last group gives the bytes
\* its bits cover
sextetsToBytes(v) ==
    LET n == Len(v)
        r == n % 4
        nbytes == 3 * (n \div 4) + (IF r >= 2 THEN r - 1 ELSE 0)
        Val(j) == IF j <= n THEN v[j] ELSE 0
    IN  [i \in 1..nbytes |->
            LET g == (i - 1) \div 3
                k == (i - 1) % 3
                v1 == Val(4 * g + 1)
                v2 == Val(4 * g + 2)
                v3 == Val(4 * g + 3)
                v4 == Val(4 * g + 4)
            IN  IF k = 0 THEN v1 * 4 + (v2 \div 16)
                ELSE IF k = 1 THEN (v2 % 16) * 16 + (v3 \div 4)
                ELSE (v3 % 4) * 64 + v4]

\* number of '=' characters ending s (at most two count as padding)
padCount(s) ==
    IF Len(s) >= 2 /\ s[Len(s)] = Equals /\ s[Len(s) - 1] = Equals THEN 2
    ELSE IF Len(s) >= 1 /\ s[Len(s)] = Equals THEN 1
    ELSE 0

\* base64.decode of dart:convert: length a multiple of four, padding only at
\* the end, no stray character, unused bits of the last character zero
base64DecodeDart(s) ==
    LET npad == padCount(s)
        nval == Len(s) - npad
        vals == [i \in 1..nval |-> base64Value(s[i])]
    IN  IF Len(s) % 4 # 0 THEN Throw("DecodeError")
        ELSE IF \E i \in 1..nval : vals[i] < 0 THEN Throw("DecodeError")
        ELSE IF npad = 1 /\ vals[nval] % 4 # 0 THEN Throw("DecodeError")
        ELSE IF npad = 2 /\ vals[nval] % 16 # 0 THEN Throw("DecodeError")
        ELSE Ok(sextetsToBytes(vals))

\* Buffer.from(s, 'base64'): decoding ends at the first '=', characters
\* outside the alphabet are skipped, unused bits are dropped; never throws
base64Sextets(s) ==
    LET pads  == {i \in 1..Len(s) : s[i] = Equals}
        stop  == IF pads = {} THEN Len(s) + 1
                 ELSE CHOOSE i \in pads : \A j \in pads : i <= j
        InAlphabet(c) == base64Value(c) >= 0
        kept  == SelectSeq(SubSeq(s, 1, stop - 1), InAlphabet)
    IN  [i \in 1..Len(kept) |-> base64Value(kept[i])]

bufferFromBase64(s) == sextetsToBytes(base64Sextets(s))

\* String.split(':')
split(s) ==
    LET colons == {i \in 1..Len(s) : s[i] = Colon}
        \* position of the k-th colon; 0 and Len(s) + 1 close the ends
        Cut(k) == IF k = 0 THEN 0
                  ELSE IF k > Cardinality(colons) THEN Len(s) + 1
                  ELSE CHOOSE c \in colons :
                           Cardinality({d \in colons : d < c}) = k - 1
    IN  [k \in 1..(Cardinality(colons) + 1) |->
            SubSeq(s, Cut(k - 1) + 1, Cut(k) - 1)]

----------------------------------------------------------------------------
(* AES-256-GCM: a counter-mode key stream and a tag over key, IV and       *)
(* ciphertext, as deterministic mixing functions                           *)

IvLen  == 16
TagLen == 16
KeyLen == 32

keyStream(key, iv, n) ==
    LET h == Mix(key \o iv)
    IN  [i \in 1..n |-> (h * (2 * i + 1) + (h \div 256) + i) % 256]

gcmCrypt(key, iv, data) ==
    LET ks == keyStream(key, iv, Len(data))
    IN  [i \in 1..Len(data) |-> Xor(data[i], ks[i])]

gcmTag(key, iv, cipherBytes) == Digest(3, key \o iv \o cipherBytes, TagLen)

\* GCMBlockCipher.process in encryption mode: ciphertext followed by the tag
gcmProcessEncrypt(key, iv, plainBytes) ==
    LET c == gcmCrypt(key, iv, plainBytes)
    IN  c \o gcmTag(key, iv, c)

\* gcmProcessDecrypt that strips the tag without comparing it
gcmProcessDecryptUnchecked(key, iv, data) ==
    IF Len(data) < TagLen THEN Throw("AuthenticationError")
    ELSE Ok(gcmCrypt(key, iv, SubSeq(data, 1, Len(data) - TagLen)))

\* GCMBlockCipher.process in decryption mode: the last 16 bytes of the
\* input are the tag
gcmProcessDecrypt(key, iv, data) ==
    IF Len(data) < TagLen THEN Throw("AuthenticationError")
    ELSE LET c   == SubSeq(data, 1, Len(data) - TagLen)
             tag == SubSeqFrom(data, Len(data) - TagLen + 1)
         IN  IF tag # gcmTag(key, iv, c) THEN Throw("AuthenticationError")
             ELSE Ok(gcmCrypt(key, iv, c))

\* tag lengths createDecipheriv('aes-256-gcm') accepts in setAuthTag
ValidTagLengths == {4, 8, 12, 13, 14, 15, 16}

\* decipher.setAuthTag(tag); decipher.update(data); decipher.final()
decipherGcm(key, iv, cipherBytes, tag) ==
    IF Len(tag) \notin ValidTagLengths THEN Throw("InvalidTagLength")
    ELSE IF tag # SubSeq(gcmTag(key, iv, cipherBytes), 1, Len(tag))
         THEN Throw("AuthenticationError")
    ELSE Ok(gcmCrypt(key, iv, cipherBytes))

----------------------------------------------------------------------------
(* Key derivation *)

\* deriveKey taking the first 32 bytes of the digest itself
deriveKeyRaw(secretMaterial) == SubSeq(sha512(secretMaterial), 1, KeyLen)

\* utf8.encode(sha512(...).toString().substring(0, 32)) /
\* Buffer.from(digest('hex').substring(0, 32))
deriveKey(secretMaterial) ==
    utf8Encode(SubSeq(bytesToHex(sha512(secretMaterial)), 1, KeyLen))

passwordKey(password) == deriveKey(utf8Encode(password))

\* sharedSecretKeyTS hashing the characters of sharedSecret instead of the
\* bytes its hex digits denote
sharedSecretKeyTSUtf8(sharedSecret) == deriveKey(utf8Encode(sharedSecret))

\* hash.update(sharedSecret, 'hex')
sharedSecretKeyTS(sharedSecret) == deriveKey(bufferFromHex(sharedSecret))

----------------------------------------------------------------------------
(* encrypt / dhEncrypt *)

joinCipherText(c, iv, tag) == c \o <<Colon>> \o iv \o <<Colon>> \o tag

\* sealDart without jsonEncode: the plaintext bytes are encrypted as they are
sealDartRaw(key, iv, plainText) ==
    LET encryptedBytes == gcmProcessEncrypt(key, iv, utf8Encode(plainText))
    IN  joinCipherText(
            base64Encode(SubSeq(encryptedBytes, 1, Len(encryptedBytes) - 16)),
            base64Encode(iv),
            base64Encode(SubSeqFrom(encryptedBytes, Len(encryptedBytes) - 16 + 1)))

\* lines 23-46 of encryption.dart and 39-62 of dh_encryption.dart
sealDart(key, iv, plainText) ==
    LET jsonPlainText  == jsonEncode(plainText)
        plainTextBytes == utf8Encode(jsonPlainText)
        encryptedBytes == gcmProcessEncrypt(key, iv, plainTextBytes)
        encryptedData  == SubSeq(encryptedBytes, 1, Len(encryptedBytes) - 16)
        authTag        == SubSeqFrom(encryptedBytes, Len(encryptedBytes) - 16 + 1)
    IN  joinCipherText(base64Encode(encryptedData), base64Encode(iv),
                       base64Encode(authTag))

\* encryptDart with an IV that is not drawn: sixteen zero bytes at every call
encryptDartFixedIv(plainText, password, iv) ==
    Ok(sealDart(passwordKey(password), [i \in 1..IvLen |-> 0], plainText))

encryptDart(plainText, password, iv) ==
    Ok(sealDart(passwordKey(password), iv, plainText))

\* dhEncryptDart hashing the characters of sharedSecret instead of the bytes
\* its hex digits denote
dhEncryptDartUtf8(plainText, sharedSecret, iv) ==
    Ok(sealDart(deriveKey(utf8Encode(sharedSecret)), iv, plainText))

dhEncryptDart(plainText, sharedSecret, iv) ==
    IF hexToBytesThrows(sharedSecret) THEN Throw("DecodeError")
    ELSE Ok(sealDart(deriveKey(hexToBytes(sharedSecret)), iv, plainText))

\* sealTS serializing plainText as a JSON string before it encrypts
sealTSWrapped(key, iv, plainText) ==
    LET encrypted == gcmCrypt(key, iv, utf8Encode(jsonQuote(plainText)))
        authTag   == gcmTag(key, iv, encrypted)
    IN  joinCipherText(base64Encode(encrypted), base64Encode(iv),
                       base64Encode(authTag))

\* cipher.update(plainText, 'utf-8', 'base64') + cipher.final('base64'),
\* cipher.getAuthTag()
sealTS(key, iv, plainText) ==
    LET encrypted == gcmCrypt(key, iv, utf8Encode(plainText))
        authTag   == gcmTag(key, iv, encrypted)
    IN  joinCipherText(base64Encode(encrypted), base64Encode(iv),
                       base64Encode(authTag))

encryptTS(plainText, password, iv) ==
    Ok(sealTS(passwordKey(password), iv, plainText))

dhEncryptTS(plainText, sharedSecret, iv) ==
    Ok(sealTS(sharedSecretKeyTS(sharedSecret), iv, plainText))

----------------------------------------------------------------------------
(* decrypt / dhDecrypt *)

\* openDart handing the segments to the cipher as they are, the third one
\* as the tag, which has to be of 16 bytes
openDartTagChecked(parts, key, keyThrows) ==
    LET encryptedData == base64DecodeDart(parts[1])
        iv            == base64DecodeDart(parts[2])
        authTag       == base64DecodeDart(parts[3])
    IN  IF ~encryptedData.ok \/ ~iv.ok \/ ~authTag.ok THEN Throw("DecodeError")
        ELSE IF keyThrows THEN Throw("DecodeError")
        ELSE IF Len(authTag.value) # TagLen THEN Throw("AuthenticationError")
        ELSE LET decryptedBytes ==
                     gcmProcessDecrypt(key, iv.value,
                                       encryptedData.value \o authTag.value)
             IN  IF ~decryptedBytes.ok THEN decryptedBytes
                 ELSE LET decryptedString == utf8Decode(decryptedBytes.value)
                      IN  IF ~decryptedString.ok THEN decryptedString
                          ELSE jsonDecode(decryptedString.value)

\* lines 206-232 of dh_encryption.dart (decrypt) and 77-105 (dhDecrypt),
\* given the key; keyThrows tells whether deriving the key throws
openDart(parts, key, keyThrows) ==
    LET encryptedData == base64DecodeDart(parts[1])
        iv            == base64DecodeDart(parts[2])
        authTag       == base64DecodeDart(parts[3])
    IN  IF ~encryptedData.ok \/ ~iv.ok \/ ~authTag.ok THEN Throw("DecodeError")
        ELSE IF keyThrows THEN Throw("DecodeError")
        ELSE LET combinedData   == encryptedData.value \o authTag.value
                 decryptedBytes == gcmProcessDecrypt(key, iv.value, combinedData)
             IN  IF ~decryptedBytes.ok THEN decryptedBytes
                 ELSE LET decryptedString == utf8Decode(decryptedBytes.value)
                      IN  IF ~decryptedString.ok THEN decryptedString
                          ELSE jsonDecode(decryptedString.value)

decryptDart(encryptedText, password) ==
    LET parts == split(encryptedText)
    IN  IF Len(parts) # 3 THEN Throw("FormatError")
        ELSE openDart(parts, passwordKey(password), FALSE)

\* dhDecryptDart hashing the characters of sharedSecret instead of the bytes
\* its hex digits denote
dhDecryptDartUtf8(encryptedText, sharedSecret) ==
    LET parts == split(encryptedText)
    IN  IF Len(parts) # 3 THEN Throw("FormatError")
        ELSE openDart(parts, deriveKey(utf8Encode(sharedSecret)), FALSE)

\* dhDecryptDart deriving the key before it looks at the text
dhDecryptDartKeyFirst(encryptedText, sharedSecret) ==
    LET parts == split(encryptedText)
    IN  IF hexToBytesThrows(sharedSecret) THEN Throw("DecodeError")
        ELSE IF Len(parts) # 3 THEN Throw("FormatError")
        ELSE openDart(parts, deriveKey(hexToBytes(sharedSecret)), FALSE)

dhDecryptDart(encryptedText, sharedSecret) ==
    LET parts == split(encryptedText)
    IN  IF Len(parts) # 3 THEN Throw("FormatError")
        ELSE openDart(parts, deriveKey(hexToBytes(sharedSecret)),
                      hexToBytesThrows(sharedSecret))

\* lines 14-24 of decryption.ts and 39-48 of dh-encryption.ts
openTS(result, key) ==
    LET iv        == bufferFromBase64(result[2])
        authTag   == bufferFromBase64(result[3])
        plain     == decipherGcm(key, iv, bufferFromBase64(result[1]), authTag)
    IN  IF Len(iv) = 0 THEN Throw("InvalidIV")
        ELSE IF ~plain.ok THEN plain
        ELSE jsonDecode(utf8DecodeLossy(plain.value))

decryptTS(encryptedText, password) ==
    LET key    == passwordKey(password)
        result == split(encryptedText)
    IN  IF Len(result) # 3 THEN Throw("FormatError")
        ELSE openTS(result, key)

dhDecryptTS(encryptedText, sharedSecret) ==
    LET result == split(encryptedText)
    IN  IF Len(result) # 3 THEN Throw("FormatError")
        ELSE openTS(result, sharedSecretKeyTS(sharedSecret))

encrypt(impl, plainText, password, iv) ==
    IF impl = "dart" THEN encryptDart(plainText, password, iv)
    ELSE encryptTS(plainText, password, iv)

decrypt(impl, encryptedText, password) ==
    IF impl = "dart" THEN decryptDart(encryptedText, password)
    ELSE decryptTS(encryptedText, password)

dhEncrypt(impl, plainText, sharedSecret, iv) ==
    IF impl = "dart" THEN dhEncryptDart(plainText, sharedSecret, iv)
    ELSE dhEncryptTS(plainText, sharedSecret, iv)

dhDecrypt(impl, encryptedText, sharedSecret) ==
    IF impl = "dart" THEN dhDecryptDart(encryptedText, sharedSecret)
    ELSE dhDecryptTS(encryptedText, sharedSecret)

----------------------------------------------------------------------------
(* Inputs *)

Impl  == {"dart", "ts"}
Party == {"alice", "bob"}
Other(p) == IF p = "alice" THEN "bob" ELSE "alice"

StringsUpTo(chars, n) == UNION {[1..k -> chars] : k \in 0..n}

\* a letter, the characters JSON escapes, a control character, a character
\* of two UTF-8 bytes
PlainChars == {97, Quote, Backslash, Newline, 233}
PlainTexts     == StringsUpTo(PlainChars, MaxPlainLen)
WirePlainTexts == StringsUpTo(PlainChars, MaxWirePlainLen)

\* passwords are made of a letter that is not ASCII
Passwords == StringsUpTo({233}, MaxPasswordLen)
OptionalPasswords == Passwords \cup {Absent}

IvOf(seed) == [i \in 1..IvLen |-> (seed * 37 + i * 11 + seed * i) % 256]
IVs == {IvOf(seed) : seed \in 0..MaxIvSeed}

Clocks == 0..MaxClock

\* values the loop of generateDHKeyPair may draw: the lowest ones, those
\* around the prime and the highest one
SampledValues ==
    {d \in generateRandomBigInt(PrimeBits) :
        \/ d <= 3
        \/ (d >= Prime - 2 /\ d <= Prime + 1)
        \/ d = Pow2(8 * ((PrimeBits + 7) \div 8)) - 1}

PrivateKeyDraws(impl) ==
    IF impl = "dart" THEN dartPrivateKeyDraws ELSE tsPrivateKeyDraws

\* the draws of a session: the lowest and the highest ones and those next to
\* the group order
SessionDraws(impl) ==
    {d \in PrivateKeyDraws(impl) :
        \/ d <= MaxSessionDraw
        \/ d >= Prime - MaxSessionDraw
        \/ (d >= GroupOrder - 1 /\ d <= GroupOrder + 1)}

\* key strings handed to computeSharedSecret: every value up to just above
\* the prime, in the digits of toRadixString(16) and of Buffer.toString('hex')
KeyStrings ==
    {bigIntToHex(v) : v \in 0..(Prime + 2)}
        \cup {bytesToHex(bigNumToBuffer(v)) : v \in 0..(Prime + 2)}

\* private key strings, in the digits of either implementation
PrivateKeyStrings ==
    {bigIntToHex(v) : v \in {1, 2, GroupOrder, Prime - 1}}
        \cup {bytesToHex(bigNumToBuffer(v)) : v \in {1, 2, GroupOrder}}

\* private and public keys of full length, as generateDHKeyPair emits them
EmittedSecretKeys == {bytesToHex(bigNumToBuffer(3))}
EmittedPeerKeys == {bytesToHex(bigNumToBuffer(v)) : v \in {4, Prime - 2}}

\* shared secrets as computeSharedSecret returns them: a SHA-256 one and a
\* SHA-512 one
SharedSecrets ==
    {computeSharedSecretDart(<<53>>, <<52>>, Absent).value,
     computeSharedSecretDart(<<53>>, <<52>>, <<233>>).value}

\* the string 'secret' of the test suite, which is not hexadecimal
NotHexSecret == <<115, 101, 99, 114, 101, 116>>

\* strings handed to dhEncrypt / dhDecrypt as sharedSecret
SecretStrings == SharedSecrets \cup {NotHexSecret}

\* lengths of the strings handed to validatePublicKey: up to MaxShortKeyLen
\* characters, and within MaxKeyLenDelta characters of the two lengths
\* that decode to MinKeyBytes and to MaxKeyBytes
KeyTextLengths ==
    (0..MaxShortKeyLen)
        \cup {2 * MinKeyBytes + d : d \in (-MaxKeyLenDelta)..MaxKeyLenDelta}
        \cup {2 * MaxKeyBytes + d : d \in (-MaxKeyLenDelta)..MaxKeyLenDelta}

\* the digits a hex key string is filled with: '0', 'f'
KeyFillChars == {48, 102}

\* characters that are no hexadecimal digit: 'g', '-', ' '
NotHexChars == {103, 45, 32}

HexKeyTexts == {[i \in 1..n |-> c] : n \in KeyTextLengths, c \in KeyFillChars}

\* positions where a key string gets a character that is no digit: both
\* ends and either side of the length that decodes to MinKeyBytes
BadPositions(n) ==
    {k \in {1, 2, 2 * MinKeyBytes, 2 * MinKeyBytes + 3, n - 1, n} :
        k >= 1 /\ k <= n}

NotHexKeyTexts ==
    {[i \in 1..n |-> IF i = k THEN b ELSE c] :
        <<n, k, b, c>> \in
            {t \in KeyTextLengths \X (1..(2 * MaxKeyBytes + MaxKeyLenDelta))
                       \X NotHexChars \X {102} : t[2] \in BadPositions(t[1])}}

\* 'invalid-key' of the test suite
InvalidKey ==
    <<105, 110, 118, 97, 108, 105, 100, 45, 107, 101, 121>>

KeyTexts == HexKeyTexts \cup NotHexKeyTexts \cup {InvalidKey}

\* strings handed to JSON.stringify: those of PlainChars, of a control
\* character without a short escape and of the solidus
JsonStrings == StringsUpTo(PlainChars \cup {1, 47}, MaxWirePlainLen)

\* values handed to JSON.stringify: strings, null, booleans, integers,
\* arrays and objects
JsonValues ==
    JsonStrings \cup
    {JsonNull, JsonTrue, JsonFalse,
     JsonNumber(0), JsonNumber(10), JsonNumber(-7),
     JsonArray(<<>>), JsonArray(<<<<97>>, JsonNull>>),
     JsonArray(<<JsonArray(<<JsonNumber(1)>>), <<Quote>>>>),
     JsonObject(<<>>),
     JsonObject(<< <<<<97>>, <<233>>>> >>),
     JsonObject(<< <<<<233>>, JsonArray(<<JsonFalse>>)>>,
                   <<<<97, Quote>>, JsonObject(<< <<<<>>, JsonNumber(2)>> >>)>> >>)}

\* texts that are not CipherText: 'invalid-format', the empty string, two
\* parts, four parts
InvalidFormat ==
    <<105, 110, 118, 97, 108, 105, 100, 45, 102, 111, 114, 109, 97, 116>>
MalformedTexts ==
    {InvalidFormat, <<>>, <<65, Colon, 66>>,
     <<65, Colon, 66, Colon, 67, Colon, 68>>}

\* private keys handed to computeSharedSecret: '03', and '03zz', '03g4',
\* '0003x' with characters that are no hex digits after the first two
DamagedPrivateKeys ==
    {<<48, 51>>, <<48, 51, 122, 122>>, <<48, 51, 103, 52>>,
     <<48, 48, 48, 51, 120>>}

\* public keys handed to computeSharedSecret: '04', and '04zz', 'zz04', '0g',
\* '08:' with characters that are no hex digits
DamagedPublicKeys ==
    {<<48, 52>>, <<48, 52, 122, 122>>, <<122, 122, 48, 52>>, <<48, 103>>,
     <<48, 56, Colon>>}

\* the text whose first and third segments encode the first k and the
\* remaining bytes of what the first and third segments of s encode
resplit(s, k) ==
    LET parts    == split(s)
        combined == base64DecodeDart(parts[1]).value
                        \o base64DecodeDart(parts[3]).value
    IN  joinCipherText(base64Encode(SubSeq(combined, 1, k)), parts[2],
                       base64Encode(SubSeqFrom(combined, k + 1)))

\* number of bytes the first and third segments of s encode
combinedLength(s) ==
    Len(base64DecodeDart(split(s)[1]).value)
        + Len(base64DecodeDart(split(s)[3]).value)

\* texts that encrypt and dhEncrypt returned, with the boundary between
\* encrypted data and auth tag moved to any place
ResplitTexts ==
    LET texts == {encryptDart(<<97>>, <<233>>, IvOf(0)).value,
                  dhEncryptTS(<<Quote, 97, Quote>>,
                              computeSharedSecretDart(<<53>>, <<52>>, Absent).value,
                              IvOf(1)).value}
    IN  UNION {{resplit(text, k) : k \in 0..combinedLength(text)} :
                  text \in texts}

\* segments that are not standard base64: '!!!!' and 'QQ*=' (characters
\* outside the alphabet), 'QQ' (padding missing), 'QQ=Q' (padding inside),
\* 'A-_B' (the URL-safe alphabet)
BadSegments ==
    {<<33, 33, 33, 33>>, <<81, 81, 42, Equals>>, <<81, 81>>,
     <<81, 81, Equals, 81>>, <<65, 45, 95, 66>>}

\* s with its k-th segment replaced by segment
withSegment(s, k, segment) ==
    LET parts == [split(s) EXCEPT ![k] = segment]
    IN  parts[1] \o <<Colon>> \o parts[2] \o <<Colon>> \o parts[3]

\* texts of three segments, one of which is not standard base64: a text
\* that encrypt returned, one segment replaced
BadSegmentTexts ==
    {withSegment(encryptDart(<<97>>, <<233>>, IvOf(0)).value, k, segment) :
        k \in 1..3, segment \in BadSegments}

----------------------------------------------------------------------------
(* State *)

NoKeyPair == [privateKey |-> Absent, publicKey |-> Absent]
NoResult  == [ok |-> FALSE, value |-> <<>>, err |-> None]
NoGenIn   == [impl |-> None, password |-> Absent, draw |-> 0, clock |-> 0]
NoSecretCall ==
    [impl |-> None, privateKey |-> Absent, otherPublicKey |-> Absent,
     password |-> Absent, ret |-> NoResult]
NoSent ==
    [op |-> None, by |-> None, impl |-> None, plainText |-> <<>>,
     material |-> Absent, iv |-> <<>>, ret |-> NoResult]
NoRecv ==
    [op |-> None, by |-> None, impl |-> None, encryptedText |-> Absent,
     material |-> Absent, ret |-> NoResult]
NoValidated == [impl |-> None, publicKey |-> Absent, ret |-> FALSE]

\* where a call of the Dart generateDHKeyPair stands ("idle", "loop",
\* "done"), and how many values its loop has drawn so far
NoResample == [pc |-> "idle", attempts |-> 0]

\* the callers that run side by side
Task == {"t1", "t2"}

\* a call: the operation, the implementation and the arguments, the random
\* draw (private key or IV) and the clock value among them
NoCall ==
    [op |-> None, impl |-> None, password |-> Absent, draw |-> 0, clock |-> 0,
     privateKey |-> Absent, otherPublicKey |-> Absent, plainText |-> <<>>,
     iv |-> <<>>, encryptedText |-> Absent]

\* where a caller stands: "idle", "called", "prepared", "returned"
NoTask == [pc |-> "idle", call |-> NoCall, ret |-> NoResult]

\* the objects a call creates for itself: the private key held by the
\* DiffieHellman object or the local BigInt, the key and IV held by the
\* cipher object
NoFrame == [draw |-> 0, privateKey |-> Absent, key |-> <<>>, iv |-> <<>>]

\* calls of generateDHKeyPair
GenerateCalls ==
    {[NoCall EXCEPT !.op = "generateDHKeyPair", !.impl = impl,
                    !.password = password, !.draw = draw] :
        impl \in Impl, password \in {Absent, <<233>>}, draw \in {2, 3}}

\* calls of computeSharedSecret, on keys of two digits
SecretCalls ==
    {[NoCall EXCEPT !.op = "computeSharedSecret", !.impl = impl,
                    !.privateKey = privateKey,
                    !.otherPublicKey = <<49, 48>>] :
        impl \in Impl, privateKey \in {<<49, 49>>, <<49, 50>>}}

\* calls of encrypt
EncryptCalls ==
    {[NoCall EXCEPT !.op = "encrypt", !.impl = impl, !.password = password,
                    !.plainText = plainText, !.iv = IvOf(0)] :
        impl \in Impl, password \in {<<>>, <<233>>},
        plainText \in {<<>>, <<Quote, 97, Quote>>}}

\* calls of decrypt, on a text that encrypt returns and on 'invalid-format'
DecryptCalls ==
    {[NoCall EXCEPT !.op = "decrypt", !.impl = impl, !.password = password,
                    !.encryptedText = text] :
        impl \in Impl, password \in {<<>>, <<233>>},
        text \in {encryptDart(<<97>>, <<233>>, IvOf(0)).value, InvalidFormat}}

Calls == GenerateCalls \cup SecretCalls \cup EncryptCalls \cup DecryptCalls

\* calls of generateDHKeyPair with a password, at any clock value
PasswordGenerateCalls ==
    {[NoCall EXCEPT !.op = "generateDHKeyPair", !.impl = impl,
                    !.password = password, !.draw = draw, !.clock = clock] :
        impl \in Impl, password \in Passwords, draw \in {2, 3},
        clock \in Clocks}

\* nothing has been called; both parties of a session run implementation i
Quiet(i) ==
    /\ keyPair = NoKeyPair
    /\ genIn = NoGenIn
    /\ secretCall = NoSecretCall
    /\ implOf = [p \in Party |-> i]
    /\ kp = [p \in Party |-> NoKeyPair]
    /\ secret = [p \in Party |-> NoResult]
    /\ sent = NoSent
    /\ wire = Absent
    /\ recv = NoRecv
    /\ validated = NoValidated
    /\ sessionPassword = Absent
    /\ tasks = [t \in Task |-> NoTask]
    /\ frames = [t \in Task |-> NoFrame]
    /\ resample = NoResample

Init == Quiet("dart")

InitSession == \E i \in Impl : Quiet(i)

----------------------------------------------------------------------------
(* Key generation: one call of generateDHKeyPair *)

GenerateDHKeyPair(impl, password, draw, clock) ==
    /\ genIn = NoGenIn
    /\ genIn' = [impl |-> impl, password |-> password, draw |-> draw,
                 clock |-> clock]
    /\ keyPair' = generateDHKeyPair(impl, password, draw, clock)
    /\ UNCHANGED <<resample, tasks, frames, sessionPassword, validated, secretCall, implOf, kp, secret, sent, wire, recv>>

NextKeyGen ==
    \E impl \in Impl, password \in OptionalPasswords, clock \in Clocks :
        \E draw \in PrivateKeyDraws(impl) :
            GenerateDHKeyPair(impl, password, draw, clock)

SpecKeyGen == Init /\ [][NextKeyGen]_vars

----------------------------------------------------------------------------
(* The loop of the Dart generateDHKeyPair: a value is drawn until it lies  *)
(* above one and below the prime; then the key pair is made of it.  The    *)
(* count of the values drawn is kept up to MaxResample.                    *)

EnterGenerate(password, clock) ==
    /\ resample.pc = "idle"
    /\ resample' = [pc |-> "loop", attempts |-> 0]
    /\ genIn' = [impl |-> "dart", password |-> password, draw |-> 0,
                 clock |-> clock]
    /\ UNCHANGED <<tasks, frames, sessionPassword, validated, keyPair,
                   secretCall, implOf, kp, secret, sent, wire, recv>>

\* do { privateKey = _generateRandomBigInt(2048); }
\* while (privateKey >= prime || privateKey <= BigInt.one);
\* and, once the loop is left, the rest of the call
Resample(privateKey) ==
    /\ resample.pc = "loop"
    /\ genIn' = [genIn EXCEPT !.draw = privateKey]
    /\ resample' =
           [pc |-> IF privateKey >= Prime \/ privateKey <= 1 THEN "loop"
                   ELSE "done",
            attempts |-> Min(resample.attempts + 1, MaxResample)]
    /\ keyPair' = IF privateKey >= Prime \/ privateKey <= 1 THEN keyPair
                  ELSE generateDHKeyPairDart(genIn.password, privateKey,
                                             genIn.clock)
    /\ UNCHANGED <<tasks, frames, sessionPassword, validated, secretCall,
                   implOf, kp, secret, sent, wire, recv>>

NextResample ==
    \/ \E password \in OptionalPasswords, clock \in Clocks :
           EnterGenerate(password, clock)
    \/ \E privateKey \in SampledValues : Resample(privateKey)

SpecResample == Init /\ [][NextResample]_vars

\* the loop goes on as long as it is not left
SpecResampleFair == SpecResample /\ WF_vars(NextResample)

----------------------------------------------------------------------------
(* Shared secret: one call of computeSharedSecret on any key strings *)

ComputeSharedSecret(impl, privateKey, otherPublicKey, password) ==
    /\ secretCall = NoSecretCall
    /\ secretCall' =
           [impl |-> impl, privateKey |-> privateKey,
            otherPublicKey |-> otherPublicKey, password |-> password,
            ret |-> computeSharedSecret(impl, privateKey, otherPublicKey,
                                        password)]
    /\ UNCHANGED <<resample, tasks, frames, sessionPassword, validated, keyPair, genIn, implOf, kp, secret, sent, wire, recv>>

NextSecret ==
    \E impl \in Impl, privateKey \in PrivateKeyStrings,
       otherPublicKey \in KeyStrings, password \in OptionalPasswords :
        ComputeSharedSecret(impl, privateKey, otherPublicKey, password)

SpecSecret == Init /\ [][NextSecret]_vars

----------------------------------------------------------------------------
(* Damaged keys: one call of computeSharedSecret on key strings with        *)
(* characters that are no hex digits                                       *)

NextDamagedKey ==
    \E impl \in Impl, privateKey \in DamagedPrivateKeys,
       otherPublicKey \in DamagedPublicKeys, password \in OptionalPasswords :
        ComputeSharedSecret(impl, privateKey, otherPublicKey, password)

SpecDamagedKey == Init /\ [][NextDamagedKey]_vars

----------------------------------------------------------------------------
(* Key validation: one call of validatePublicKey on any string *)

ValidatePublicKey(impl, publicKey) ==
    /\ validated = NoValidated
    /\ validated' = [impl |-> impl, publicKey |-> publicKey,
                     ret |-> validatePublicKey(impl, publicKey)]
    /\ UNCHANGED <<resample, tasks, frames, sessionPassword, keyPair, genIn, secretCall, implOf, kp, secret, sent, wire,
                   recv>>

NextValidate ==
    \E impl \in Impl, publicKey \in KeyTexts : ValidatePublicKey(impl, publicKey)

SpecValidate == Init /\ [][NextValidate]_vars

----------------------------------------------------------------------------
(* Password cipher and shared-secret cipher: calls on any inputs.  One    *)
(* text is under way at a time: it is produced (or injected), then read    *)
(* by the cipher that produced it, with any key material.                  *)

Idle == sent = NoSent /\ wire = Absent /\ recv = NoRecv

Encrypt(impl, plainText, password, iv) ==
    LET ret == encrypt(impl, plainText, password, iv)
    IN  /\ Idle
        /\ sent' = [op |-> "encrypt", by |-> None, impl |-> impl,
                    plainText |-> plainText, material |-> password,
                    iv |-> iv, ret |-> ret]
        /\ wire' = IF ret.ok THEN ret.value ELSE Absent
        /\ recv' = NoRecv
        /\ UNCHANGED <<resample, tasks, frames, sessionPassword, validated, keyPair, genIn, secretCall, implOf, kp, secret>>

DhEncrypt(impl, plainText, sharedSecret, iv) ==
    LET ret == dhEncrypt(impl, plainText, sharedSecret, iv)
    IN  /\ Idle
        /\ sent' = [op |-> "dhEncrypt", by |-> None, impl |-> impl,
                    plainText |-> plainText, material |-> sharedSecret,
                    iv |-> iv, ret |-> ret]
        /\ wire' = IF ret.ok THEN ret.value ELSE Absent
        /\ recv' = NoRecv
        /\ UNCHANGED <<resample, tasks, frames, sessionPassword, validated, keyPair, genIn, secretCall, implOf, kp, secret>>

\* a text that no encrypt call produced arrives
Inject(text) ==
    /\ Idle
    /\ wire' = text
    /\ sent' = NoSent
    /\ recv' = NoRecv
    /\ UNCHANGED <<resample, tasks, frames, sessionPassword, validated, keyPair, genIn, secretCall, implOf, kp, secret>>

Decrypt(impl, password) ==
    /\ wire # Absent
    /\ recv = NoRecv
    /\ recv' = [op |-> "decrypt", by |-> None, impl |-> impl,
                encryptedText |-> wire, material |-> password,
                ret |-> decrypt(impl, wire, password)]
    /\ UNCHANGED <<resample, tasks, frames, sessionPassword, validated, keyPair, genIn, secretCall, implOf, kp, secret, sent, wire>>

DhDecrypt(impl, sharedSecret) ==
    /\ wire # Absent
    /\ recv = NoRecv
    /\ recv' = [op |-> "dhDecrypt", by |-> None, impl |-> impl,
                encryptedText |-> wire, material |-> sharedSecret,
                ret |-> dhDecrypt(impl, wire, sharedSecret)]
    /\ UNCHANGED <<resample, tasks, frames, sessionPassword, validated, keyPair, genIn, secretCall, implOf, kp, secret, sent, wire>>

\* the text has been read; the next one may follow
NextMessage ==
    /\ recv # NoRecv
    /\ sent' = NoSent
    /\ wire' = Absent
    /\ recv' = NoRecv
    /\ UNCHANGED <<resample, tasks, frames, sessionPassword, validated, keyPair, genIn, secretCall, implOf, kp, secret>>

NextCipher ==
    \/ \E impl \in Impl, plainText \in PlainTexts, password \in Passwords,
          iv \in IVs : Encrypt(impl, plainText, password, iv)
    \/ \E impl \in Impl, plainText \in PlainTexts,
          sharedSecret \in SecretStrings, iv \in IVs :
           DhEncrypt(impl, plainText, sharedSecret, iv)
    \/ \E text \in MalformedTexts : Inject(text)
    \/ \E impl \in Impl, password \in Passwords :
           sent.op # "dhEncrypt" /\ Decrypt(impl, password)
    \/ \E impl \in Impl, sharedSecret \in SecretStrings :
           sent.op # "encrypt" /\ DhDecrypt(impl, sharedSecret)
    \/ NextMessage

SpecCipher == Init /\ [][NextCipher]_vars

----------------------------------------------------------------------------
(* Shared-secret cipher on a computed secret: one call of                  *)
(* computeSharedSecret on emitted keys, then dhEncrypt and dhDecrypt with  *)
(* the secret it returned                                                  *)

NextSecretCipher ==
    \/ \E impl \in Impl, privateKey \in EmittedSecretKeys,
          otherPublicKey \in EmittedPeerKeys, password \in OptionalPasswords :
           ComputeSharedSecret(impl, privateKey, otherPublicKey, password)
    \/ \E impl \in Impl, plainText \in WirePlainTexts, iv \in IVs :
           /\ secretCall.ret.ok
           /\ DhEncrypt(impl, plainText, secretCall.ret.value, iv)
    \/ \E impl \in Impl :
           /\ secretCall.ret.ok
           /\ sent.op = "dhEncrypt"
           /\ DhDecrypt(impl, secretCall.ret.value)
    \/ NextMessage

SpecSecretCipher == Init /\ [][NextSecretCipher]_vars

----------------------------------------------------------------------------
(* Malformed segments: a text of three segments, one of them not base64,   *)
(* arrives and is read with any key material                               *)

NextMalformed ==
    \/ \E text \in BadSegmentTexts : Inject(text)
    \/ \E impl \in Impl, password \in Passwords : Decrypt(impl, password)
    \/ \E impl \in Impl, sharedSecret \in SecretStrings :
           DhDecrypt(impl, sharedSecret)
    \/ NextMessage

SpecMalformed == Init /\ [][NextMalformed]_vars

----------------------------------------------------------------------------
(* Moved boundary: a text with the boundary between encrypted data and     *)
(* auth tag moved arrives and is read with any key material                *)

NextResplit ==
    \/ \E text \in ResplitTexts : Inject(text)
    \/ \E impl \in Impl, password \in Passwords : Decrypt(impl, password)
    \/ \E impl \in Impl, sharedSecret \in SecretStrings :
           DhDecrypt(impl, sharedSecret)
    \/ NextMessage

SpecResplit == Init /\ [][NextResplit]_vars

----------------------------------------------------------------------------
(* Serialized values: the TypeScript side encrypts JSON.stringify(value),  *)
(* and either side reads the text with the same password or shared secret *)

NextStringified ==
    \/ \E value \in JsonValues, password \in Passwords, iv \in IVs :
           Encrypt("ts", jsonStringify(value), password, iv)
    \/ \E value \in JsonValues, sharedSecret \in SharedSecrets, iv \in IVs :
           DhEncrypt("ts", jsonStringify(value), sharedSecret, iv)
    \/ \E impl \in Impl : sent.op = "encrypt" /\ Decrypt(impl, sent.material)
    \/ \E impl \in Impl :
           sent.op = "dhEncrypt" /\ DhDecrypt(impl, sent.material)
    \/ NextMessage

SpecStringified == Init /\ [][NextStringified]_vars

----------------------------------------------------------------------------
(* Tampering: one bit of the auth tag of a produced CipherText is flipped  *)
(* on the way, either a bit of the 16 tag bytes or a bit of a character of *)
(* the segment that encodes them; then the holder of the right key         *)
(* material reads it                                                       *)

TagBits == 0..(8 * TagLen - 1)

\* the CipherText with bit n of its 16-byte tag inverted
flipTagBit(cipherText, n) ==
    LET parts == split(cipherText)
        tag   == bufferFromBase64(parts[3])
        byte  == (n \div 8) + 1
        flipped == [tag EXCEPT ![byte] = FlipBit(tag[byte], n % 8)]
    IN  joinCipherText(parts[1], parts[2], base64Encode(flipped))

Tamper(n) ==
    /\ sent.ret.ok
    /\ wire = sent.ret.value
    /\ recv = NoRecv
    /\ wire' = flipTagBit(wire, n)
    /\ UNCHANGED <<resample, tasks, frames, sessionPassword, validated, keyPair, genIn, secretCall, implOf, kp, secret, sent, recv>>

\* the CipherText with bit b of character k of its third segment inverted
flipSegmentBit(cipherText, k, b) ==
    LET parts == split(cipherText)
        flipped == [parts[3] EXCEPT ![k] = FlipBit(parts[3][k], b)]
    IN  joinCipherText(parts[1], parts[2], flipped)

TamperSegment(k, b) ==
    /\ sent.ret.ok
    /\ wire = sent.ret.value
    /\ recv = NoRecv
    /\ k <= Len(split(wire)[3])
    /\ wire' = flipSegmentBit(wire, k, b)
    /\ UNCHANGED <<resample, tasks, frames, sessionPassword, validated, keyPair, genIn, secretCall, implOf, kp, secret, sent, recv>>

NextTamper ==
    \/ \E impl \in Impl, plainText \in WirePlainTexts, password \in Passwords,
          iv \in IVs : Encrypt(impl, plainText, password, iv)
    \/ \E impl \in Impl, plainText \in WirePlainTexts,
          sharedSecret \in SharedSecrets, iv \in IVs :
           DhEncrypt(impl, plainText, sharedSecret, iv)
    \/ \E n \in TagBits : Tamper(n)
    \/ \E k \in 1..(2 * TagLen), b \in 0..7 : TamperSegment(k, b)
    \/ \E impl \in Impl : sent.op = "encrypt" /\ Decrypt(impl, sent.material)
    \/ \E impl \in Impl : sent.op = "dhEncrypt" /\ DhDecrypt(impl, sent.material)
    \/ NextMessage

SpecTamper == Init /\ [][NextTamper]_vars

----------------------------------------------------------------------------
(* Session: each party generates a key pair, the public keys are           *)
(* exchanged, each party computes its shared secret and drops its          *)
(* ephemeral key pair, then messages go both ways                          *)

SessionGenerate(p) ==
    /\ kp[p] = NoKeyPair
    /\ \A r \in Party : secret[r] = NoResult
    /\ \E draw \in SessionDraws(implOf[p]) :
           kp' = [kp EXCEPT ![p] =
                      generateDHKeyPair(implOf[p], Absent, draw, 0)]
    /\ UNCHANGED <<resample, tasks, frames, sessionPassword, validated, keyPair, genIn, secretCall, implOf, secret, sent, wire, recv>>

SessionCompute(p) ==
    /\ \A r \in Party : kp[r] # NoKeyPair
    /\ secret[p] = NoResult
    /\ secret' = [secret EXCEPT ![p] =
                      computeSharedSecret(implOf[p], kp[p].privateKey,
                                          kp[Other(p)].publicKey,
                                          sessionPassword)]
    /\ kp' = IF secret[Other(p)] # NoResult
             THEN [r \in Party |-> NoKeyPair]
             ELSE kp
    /\ UNCHANGED <<resample, tasks, frames, sessionPassword, validated, keyPair, genIn, secretCall, implOf, sent, wire, recv>>

SessionSend(p, plainText, iv) ==
    LET ret == dhEncrypt(implOf[p], plainText, secret[p].value, iv)
    IN  /\ \A r \in Party : secret[r].ok
        /\ Idle
        /\ sent' = [op |-> "dhEncrypt", by |-> p, impl |-> implOf[p],
                    plainText |-> plainText, material |-> secret[p].value,
                    iv |-> iv, ret |-> ret]
        /\ wire' = IF ret.ok THEN ret.value ELSE Absent
        /\ recv' = NoRecv
        /\ UNCHANGED <<resample, tasks, frames, sessionPassword, validated, keyPair, genIn, secretCall, implOf, kp, secret>>

SessionReceive(p) ==
    /\ wire # Absent
    /\ recv = NoRecv
    /\ sent.by = Other(p)
    /\ recv' = [op |-> "dhDecrypt", by |-> p, impl |-> implOf[p],
                encryptedText |-> wire, material |-> secret[p].value,
                ret |-> dhDecrypt(implOf[p], wire, secret[p].value)]
    /\ UNCHANGED <<resample, tasks, frames, sessionPassword, validated, keyPair, genIn, secretCall, implOf, kp, secret, sent, wire>>

NextSession ==
    \/ \E p \in Party : SessionGenerate(p)
    \/ \E p \in Party : SessionCompute(p)
    \/ \E p \in Party, plainText \in WirePlainTexts, iv \in IVs :
           SessionSend(p, plainText, iv)
    \/ \E p \in Party : SessionReceive(p)
    \/ NextMessage

SpecSession == InitSession /\ [][NextSession]_vars

----------------------------------------------------------------------------
(* Concurrent calls: each caller's call runs in two steps, and the steps   *)
(* of different callers interleave                                         *)

\* one frame for all callers: the objects live at module level
frameShared(t) == "t1"

\* the frame a caller's call works in: every call allocates its own
\* objects (const dh = createDiffieHellman(...), final cipher =
\* GCMBlockCipher(...), final random = Random.secure())
frameOf(t) == t

\* the first part of a call: what it stores in the objects it has created
prepare(call) ==
    CASE call.op = "generateDHKeyPair" ->
           [NoFrame EXCEPT !.draw = call.draw]
      [] call.op = "computeSharedSecret" ->
           [NoFrame EXCEPT !.privateKey = call.privateKey]
      [] call.op = "encrypt" ->
           [NoFrame EXCEPT !.key = passwordKey(call.password), !.iv = call.iv]
      [] call.op = "decrypt" ->
           [NoFrame EXCEPT !.key = passwordKey(call.password)]

\* the second part of a call: the result it computes from its arguments
\* and from what its objects hold
finish(call, frame) ==
    CASE call.op = "generateDHKeyPair" ->
           Ok(generateDHKeyPair(call.impl, call.password, frame.draw,
                                call.clock))
      [] call.op = "computeSharedSecret" ->
           computeSharedSecret(call.impl, frame.privateKey,
                               call.otherPublicKey, call.password)
      [] call.op = "encrypt" ->
           IF call.impl = "dart"
           THEN Ok(sealDart(frame.key, frame.iv, call.plainText))
           ELSE Ok(sealTS(frame.key, frame.iv, call.plainText))
      [] call.op = "decrypt" ->
           LET parts == split(call.encryptedText)
           IN  IF Len(parts) # 3 THEN Throw("FormatError")
               ELSE IF call.impl = "dart" THEN openDart(parts, frame.key, FALSE)
               ELSE openTS(parts, frame.key)

\* the result of the call when it runs alone
alone(call) ==
    CASE call.op = "generateDHKeyPair" ->
           Ok(generateDHKeyPair(call.impl, call.password, call.draw,
                                call.clock))
      [] call.op = "computeSharedSecret" ->
           computeSharedSecret(call.impl, call.privateKey,
                               call.otherPublicKey, call.password)
      [] call.op = "encrypt" ->
           encrypt(call.impl, call.plainText, call.password, call.iv)
      [] call.op = "decrypt" ->
           decrypt(call.impl, call.encryptedText, call.password)

ConcurrentUnchanged ==
    UNCHANGED <<resample, keyPair, genIn, secretCall, implOf, kp, secret, sent, wire,
                recv, validated, sessionPassword>>

Call(t, call) ==
    /\ tasks[t].pc = "idle"
    /\ tasks' = [tasks EXCEPT ![t] = [pc |-> "called", call |-> call,
                                       ret |-> NoResult]]
    /\ UNCHANGED frames
    /\ ConcurrentUnchanged

Prepare(t) ==
    /\ tasks[t].pc = "called"
    /\ frames' = [frames EXCEPT ![frameOf(t)] = prepare(tasks[t].call)]
    /\ tasks' = [tasks EXCEPT ![t].pc = "prepared"]
    /\ ConcurrentUnchanged

Finish(t) ==
    /\ tasks[t].pc = "prepared"
    /\ tasks' = [tasks EXCEPT ![t].pc = "returned",
                              ![t].ret = finish(tasks[t].call,
                                                frames[frameOf(t)])]
    /\ UNCHANGED frames
    /\ ConcurrentUnchanged

\* the caller takes the result; the objects of the call are garbage
Return(t) ==
    /\ tasks[t].pc = "returned"
    /\ tasks' = [tasks EXCEPT ![t] = NoTask]
    /\ frames' = [frames EXCEPT ![frameOf(t)] = NoFrame]
    /\ ConcurrentUnchanged

NextConcurrent ==
    \/ \E t \in Task, call \in Calls : Call(t, call)
    \/ \E t \in Task : Prepare(t)
    \/ \E t \in Task : Finish(t)
    \/ \E t \in Task : Return(t)

SpecConcurrent == Init /\ [][NextConcurrent]_vars

----------------------------------------------------------------------------
(* Repeated generation: the callers call generateDHKeyPair with a password *)

NextRegenerate ==
    \/ \E t \in Task, call \in PasswordGenerateCalls : Call(t, call)
    \/ \E t \in Task : Prepare(t)
    \/ \E t \in Task : Finish(t)
    \/ \E t \in Task : Return(t)

SpecRegenerate == Init /\ [][NextRegenerate]_vars

----------------------------------------------------------------------------
(* Repeated encryption: each caller encrypts once, with a password or      *)
(* with a shared secret; the call record keeps the key material in its     *)
(* password field and the IV drawn in its iv field                         *)

EncryptOnce(t, impl, plainText, password, iv) ==
    /\ tasks[t].pc = "idle"
    /\ tasks' = [tasks EXCEPT ![t] =
                     [pc |-> "returned",
                      call |-> [NoCall EXCEPT !.op = "encrypt", !.impl = impl,
                                              !.password = password,
                                              !.plainText = plainText,
                                              !.iv = iv],
                      ret |-> encrypt(impl, plainText, password, iv)]]
    /\ UNCHANGED frames
    /\ ConcurrentUnchanged

DhEncryptOnce(t, impl, plainText, sharedSecret, iv) ==
    /\ tasks[t].pc = "idle"
    /\ tasks' = [tasks EXCEPT ![t] =
                     [pc |-> "returned",
                      call |-> [NoCall EXCEPT !.op = "dhEncrypt", !.impl = impl,
                                              !.password = sharedSecret,
                                              !.plainText = plainText,
                                              !.iv = iv],
                      ret |-> dhEncrypt(impl, plainText, sharedSecret, iv)]]
    /\ UNCHANGED frames
    /\ ConcurrentUnchanged

NextReencrypt ==
    \/ \E t \in Task, impl \in Impl, plainText \in {<<>>, <<97>>},
          password \in Passwords, iv \in IVs :
           EncryptOnce(t, impl, plainText, password, iv)
    \/ \E t \in Task, impl \in Impl, plainText \in {<<>>, <<97>>},
          sharedSecret \in SharedSecrets, iv \in IVs :
           DhEncryptOnce(t, impl, plainText, sharedSecret, iv)

SpecReencrypt == Init /\ [][NextReencrypt]_vars

----------------------------------------------------------------------------
(* A password session: both parties generate their key pair with a        *)
(* password and compute the shared secret with the session's password     *)

InitPasswordSession ==
    \E i \in Impl, password \in Passwords :
        /\ keyPair = NoKeyPair
        /\ genIn = NoGenIn
        /\ secretCall = NoSecretCall
        /\ implOf = [p \in Party |-> i]
        /\ kp = [p \in Party |-> NoKeyPair]
        /\ secret = [p \in Party |-> NoResult]
        /\ sent = NoSent
        /\ wire = Absent
        /\ recv = NoRecv
        /\ validated = NoValidated
        /\ sessionPassword = password
        /\ tasks = [t \in Task |-> NoTask]
        /\ frames = [t \in Task |-> NoFrame]
        /\ resample = NoResample

PasswordGenerate(p, password, clock) ==
    /\ kp[p] = NoKeyPair
    /\ \A r \in Party : secret[r] = NoResult
    /\ \E draw \in SessionDraws(implOf[p]) :
           kp' = [kp EXCEPT ![p] =
                      generateDHKeyPair(implOf[p], password, draw, clock)]
    /\ UNCHANGED <<resample, tasks, frames, sessionPassword, validated, keyPair, genIn, secretCall,
                   implOf, secret, sent, wire, recv>>

NextPasswordSession ==
    \/ \E p \in Party, password \in Passwords, clock \in Clocks :
           PasswordGenerate(p, password, clock)
    \/ \E p \in Party : SessionCompute(p)

SpecPasswordSession == InitPasswordSession /\ [][NextPasswordSession]_vars

----------------------------------------------------------------------------
(* Properties *)

ColonCount(text) == Cardinality({i \in 1..Len(text) : text[i] = Colon})

IsLowerHexString(s) ==
    \A i \in 1..Len(s) : IsDigit(s[i]) \/ IsLowerHex(s[i])

\* a non-empty string of the standard base64 alphabet, padded to a multiple
\* of four characters
IsStandardBase64(s) ==
    /\ Len(s) > 0
    /\ base64DecodeDart(s).ok
    /\ \A i \in 1..Len(s) : s[i] # 45 /\ s[i] # 95

\* the text has exactly two colons and three non-empty standard base64
\* segments, the second and the third of 16 bytes each
WellFormedCipherText(text) ==
    /\ ColonCount(text) = 2
    /\ LET parts == split(text)
       IN  /\ Len(parts) = 3
           /\ \A k \in 1..3 : IsStandardBase64(parts[k])
           /\ Len(base64DecodeDart(parts[2]).value) = 16
           /\ Len(base64DecodeDart(parts[3]).value) = 16

\* the Dart decrypt has read what the Dart encrypt produced, with the
\* password it was produced with
DartRoundTrip ==
    /\ sent.op = "encrypt" /\ sent.impl = "dart" /\ sent.ret.ok
    /\ recv.op = "decrypt" /\ recv.impl = "dart"
    /\ recv.encryptedText = sent.ret.value
    /\ recv.material = sent.material

\* C1: the Dart decrypt of the Dart encrypt of plaintext P under password W,
\* with the same W, returns exactly P, whatever P, W and the IV drawn.
C1_RoundTrip == DartRoundTrip => recv.ret = Ok(sent.plainText)

C1_Witness ==
    /\ DartRoundTrip
    /\ recv.ret.ok
    /\ sent.plainText = <<Quote, 233>>
    /\ sent.material = <<233>>

\* C2: once both parties of a session (same implementation, no password)
\* have called computeSharedSecret on their own private key and the other's
\* public key, both calls have returned a secret and the two are equal.
C2_Agreement ==
    (\A p \in Party : secret[p] # NoResult)
        => (secret["alice"].ok /\ secret["alice"] = secret["bob"])

C2_Witness ==
    /\ implOf["alice"] = "dart"
    /\ secret["alice"].ok /\ secret["bob"].ok
    /\ secret["alice"].value = secret["bob"].value
    /\ Len(secret["alice"].value) = 2 * SHA256Len

\* a Dart party of a session has read a message of the other Dart party
DartSessionDelivery ==
    /\ sent.op = "dhEncrypt" /\ sent.by \in Party /\ sent.impl = "dart"
    /\ recv.op = "dhDecrypt" /\ recv.by = Other(sent.by) /\ recv.impl = "dart"

TamperedDelivery ==
    /\ sent.ret.ok
    /\ recv.op # None
    /\ recv.encryptedText # sent.ret.value
    /\ recv.material = sent.material

\* C4: a CipherText of encrypt or dhEncrypt with one bit of its auth-tag
\* segment flipped makes decrypt or dhDecrypt, given the right key material,
\* raise AuthenticationError; no value is returned for the modified text.
C4_TamperRejected ==
    TamperedDelivery => (~recv.ret.ok /\ recv.ret.err = "AuthenticationError")

\* the weaker half of C4: whatever the error, no value is returned for the
\* modified text
TamperNeverReturns == TamperedDelivery => ~recv.ret.ok

\* the 16 bytes the third segment of a text stands for, as Buffer.from reads
\* them
tagOf(text) == bufferFromBase64(split(text)[3])

\* when the third segment is the encoding base64Encode gives of 16 bytes
\* other than the tag produced, the reader raises AuthenticationError
TagBytesFlipRejected ==
    (TamperedDelivery /\ ColonCount(recv.encryptedText) = 2
        /\ Len(tagOf(recv.encryptedText)) = TagLen
        /\ split(recv.encryptedText)[3]
               = base64Encode(tagOf(recv.encryptedText)))
        => (~recv.ret.ok /\ recv.ret.err = "AuthenticationError")

\* C5: decrypt and dhDecrypt raise FormatError, and return nothing, whenever
\* the text does not hold exactly two colons, whatever the password or the
\* sharedSecret is, a sharedSecret that is not hexadecimal included.
C5_FormatError ==
    (recv.op # None /\ ColonCount(recv.encryptedText) # 2)
        => recv.ret = Throw("FormatError")

C5_Witness ==
    /\ recv.op = "dhDecrypt" /\ recv.impl = "dart"
    /\ recv.encryptedText = InvalidFormat
    /\ recv.material = NotHexSecret
    /\ recv.ret = Throw("FormatError")

\* C6: every string encrypt or dhEncrypt returns, in either implementation
\* and for any plaintext, the empty one included, has exactly two colons and
\* three non-empty standard base64 segments, the IV and the auth tag of 16
\* bytes each.
C6_CipherTextFormat == sent.ret.ok => WellFormedCipherText(sent.ret.value)

\* C7: computeSharedSecret fails with InvalidKey whenever otherPublicKey, a
\* hexadecimal numeral, is not strictly between 1 and the prime, and returns
\* a secret only when it is.
C7_PublicKeyValidated ==
    (secretCall.impl # None /\ hexIsBigInt(secretCall.otherPublicKey)) =>
        LET otherPublicKey == hexToBigInt(secretCall.otherPublicKey)
        IN  /\ (otherPublicKey <= 1 \/ otherPublicKey >= Prime)
                   => secretCall.ret = Throw("InvalidKey")
            /\ secretCall.ret.ok => (1 < otherPublicKey /\ otherPublicKey < Prime)

\* C8: every key pair generateDHKeyPair returns, with or without password,
\* has 2 <= privateKey <= prime - 2.
C8_PrivateKeyRange ==
    keyPair # NoKeyPair =>
        /\ 2 <= hexToBigInt(keyPair.privateKey)
        /\ hexToBigInt(keyPair.privateKey) <= Prime - 2

\* C9: every key pair generateDHKeyPair returns has
\* publicKey = generator^privateKey mod prime for the private key returned,
\* without password and with one.
C9_KeyPairConsistent ==
    keyPair # NoKeyPair =>
        hexToBigInt(keyPair.publicKey)
            = modPow(generator, hexToBigInt(keyPair.privateKey), Prime)

\* the password-enhanced case: the private key returned is not the first
\* random one, and its public key is not the first one's
C9_Witness ==
    /\ genIn.impl = "dart"
    /\ genIn.password = <<233>>
    /\ hexToBigInt(keyPair.privateKey) # genIn.draw
    /\ hexToBigInt(keyPair.publicKey) # modPow(generator, genIn.draw, Prime)
    /\ hexToBigInt(keyPair.publicKey)
           = modPow(generator, hexToBigInt(keyPair.privateKey), Prime)

\* C10: computeSharedSecret returns 64 lowercase hex characters when no
\* password argument is given and 128 whenever one is given, for any
\* password string.
C10_SecretShape ==
    secretCall.ret.ok =>
        /\ IsLowerHexString(secretCall.ret.value)
        /\ Len(secretCall.ret.value)
               = IF secretCall.password = Absent THEN 64 ELSE 128

\* a string of hexadecimal digits only
IsHexString(s) == \A i \in 1..Len(s) : IsHexChar(s[i])

\* number of bytes the implementation decodes a hex string of n digits to:
\* the Dart side pads an odd length, the TypeScript side drops the last digit
DecodedByteLength(impl, n) ==
    IF impl = "dart" THEN (n + 1) \div 2 ELSE n \div 2

\* C11: for a string of hex digits validatePublicKey returns true exactly
\* when the decoded byte length is above 100 and below 1000; the digits
\* themselves play no part.
C11_LengthRule ==
    (validated.impl # None /\ IsHexString(validated.publicKey)) =>
        LET n == DecodedByteLength(validated.impl, Len(validated.publicKey))
        IN  validated.ret <=> (n > 100 /\ n < 1000)

\* a key of 101 bytes, all digits zero, is accepted
C11_Witness ==
    /\ validated.impl = "dart"
    /\ Len(validated.publicKey) = 202
    /\ \A i \in 1..202 : validated.publicKey[i] = 48
    /\ validated.ret

\* C12: validatePublicKey returns false for the empty string and for every
\* string that holds a character that is no hexadecimal digit, wherever the
\* character stands and however long the string is.
C12_NotHexRejected ==
    (validated.impl # None
        /\ (validated.publicKey = <<>> \/ ~IsHexString(validated.publicKey)))
        => ~validated.ret

----------------------------------------------------------------------------
(* C13: generated keys validate *)

\* C13: every public key returned by generateDHKeyPair is accepted by
\* validatePublicKey of the same implementation (with the limits of the
\* scaled group)
C13_GeneratedKeyAccepted ==
    genIn.impl # None =>
        validatePublicKeyAt(genIn.impl, keyPair.publicKey,
                            GroupMinKeyBytes, GroupMaxKeyBytes)

\* a generated key of the prime's byte length is accepted
GeneratedKeyFullLength ==
    /\ genIn.impl # None
    /\ validatePublicKeyAt(genIn.impl, keyPair.publicKey,
                           GroupMinKeyBytes, GroupMaxKeyBytes)

----------------------------------------------------------------------------
(* C14: agreement with passwords *)

\* C14: when the two parties of a password session have generated their key
\* pairs with a password, exchanged the public keys and called
\* computeSharedSecret with the session's password, both calls have returned
\* a secret and the two secrets are equal.
C14_PasswordAgreement ==
    (sessionPassword # Absent /\ \A p \in Party : secret[p] # NoResult)
        => (secret["alice"].ok /\ secret["alice"] = secret["bob"])

C14_Witness ==
    /\ sessionPassword # Absent /\ sessionPassword # <<>>
    /\ secret["alice"].ok /\ secret["bob"].ok
    /\ secret["alice"].value = secret["bob"].value
    /\ Len(secret["alice"].value) = 2 * SHA512Len

----------------------------------------------------------------------------
(* C15: wrong key material *)

\* a produced CipherText has been read, untouched, by the matching operation
\* with key material other than the sender's: another password, or another
\* shared secret as computeSharedSecret returns them
WrongKeyDelivery ==
    /\ sent.ret.ok
    /\ recv.op # None
    /\ recv.encryptedText = sent.ret.value
    /\ recv.material # sent.material
    /\ \/ sent.op = "encrypt" /\ recv.op = "decrypt"
       \/ /\ sent.op = "dhEncrypt" /\ recv.op = "dhDecrypt"
          /\ sent.material \in SharedSecrets
          /\ recv.material \in SharedSecrets

\* C15: decrypt (dhDecrypt) of a CipherText that encrypt (dhEncrypt) produced
\* under a password W (a shared secret S), called with a password W' # W (a
\* shared secret S' # S), raises AuthenticationError and returns no value,
\* whichever implementation wrote the text and whichever reads it.
C15_WrongKeyRejected ==
    WrongKeyDelivery => recv.ret = Throw("AuthenticationError")

C15_Witness ==
    /\ WrongKeyDelivery
    /\ sent.op = "encrypt" /\ sent.impl = "dart" /\ recv.impl = "dart"
    /\ Len(sent.plainText) > 0
    /\ ~recv.ret.ok /\ recv.ret.err = "AuthenticationError"

\* the same with shared secrets, read by the TypeScript side
WrongSecretRejectedTS ==
    /\ WrongKeyDelivery
    /\ sent.op = "dhEncrypt" /\ recv.impl = "ts"
    /\ recv.ret.err = "AuthenticationError"

----------------------------------------------------------------------------
(* C16: the two computeSharedSecret on the same arguments *)

\* the key pairs either generateDHKeyPair can return
EmittedKeyPairs ==
    {generateDHKeyPair(impl, password, draw, clock) :
        <<impl, password, draw, clock>> \in
            {t \in Impl \X OptionalPasswords \X generateRandomBigInt(PrimeBits)
                      \X Clocks : t[3] \in PrivateKeyDraws(t[1])}}
EmittedPrivateKeys == {pair.privateKey : pair \in EmittedKeyPairs}
EmittedPublicKeys  == {pair.publicKey : pair \in EmittedKeyPairs}

\* computeSharedSecret has been called on key strings that generateDHKeyPair
\* can return
EmittedKeysCall ==
    /\ secretCall.impl # None
    /\ secretCall.privateKey \in EmittedPrivateKeys
    /\ secretCall.otherPublicKey \in EmittedPublicKeys

\* C16: on a private key and a public key that either generateDHKeyPair can
\* return, and any optional password, the TypeScript computeSharedSecret and
\* the Dart computeSharedSecret return the same hex string.
C16_SameSecret ==
    EmittedKeysCall =>
        LET ts   == computeSharedSecretTS(secretCall.privateKey,
                                          secretCall.otherPublicKey,
                                          secretCall.password)
            dart == computeSharedSecretDart(secretCall.privateKey,
                                            secretCall.otherPublicKey,
                                            secretCall.password)
        IN  ts.ok /\ dart.ok /\ ts.value = dart.value

\* both return a secret, for keys of even length and a shared value that
\* fills the prime's bytes, and the two secrets are equal
SameSecretFullLength ==
    /\ EmittedKeysCall
    /\ secretCall.impl = "ts" /\ secretCall.ret.ok
    /\ secretCall.ret =
           computeSharedSecretDart(secretCall.privateKey,
                                   secretCall.otherPublicKey,
                                   secretCall.password)

\* both return a secret, for keys of even length that both read as the same
\* numbers and a password that is not empty, and the two secrets differ
PaddedSecretDiffers ==
    /\ EmittedKeysCall
    /\ secretCall.impl = "ts" /\ secretCall.ret.ok
    /\ Len(secretCall.privateKey) % 2 = 0
    /\ Len(secretCall.otherPublicKey) % 2 = 0
    /\ secretCall.password # <<>>
    /\ LET dart == computeSharedSecretDart(secretCall.privateKey,
                                            secretCall.otherPublicKey,
                                            secretCall.password)
       IN  dart.ok /\ dart.value # secretCall.ret.value

----------------------------------------------------------------------------
(* C17, C18: serialized values *)

\* a text the TypeScript side wrote has been read by the side reader with
\* the writer's key material
StringifiedDelivery(reader) ==
    /\ sent.impl = "ts" /\ sent.ret.ok
    /\ recv.op # None /\ recv.impl = reader
    /\ recv.encryptedText = sent.ret.value
    /\ recv.material = sent.material

\* C17: for every string s, the Dart decrypt of the TypeScript encrypt of
\* JSON.stringify(s), with the same password, returns s; and the Dart
\* dhDecrypt of the TypeScript dhEncrypt of JSON.stringify(s), with the same
\* shared secret, returns s.
C17_DartReadsStringified ==
    StringifiedDelivery("dart") =>
        \A str \in JsonStrings :
            sent.plainText = jsonStringify(str) => recv.ret = Ok(str)

C17_Witness ==
    /\ StringifiedDelivery("dart")
    /\ sent.op = "dhEncrypt"
    /\ sent.plainText = jsonStringify(<<Backslash>>)
    /\ recv.ret = Ok(<<Backslash>>)

\* C18: for every value d, the TypeScript decrypt of the TypeScript encrypt
\* of JSON.stringify(d), with the same password, returns a value equal to
\* d; the same for dhDecrypt after dhEncrypt with the same shared secret.
C18_StringifiedRoundTrip ==
    StringifiedDelivery("ts") =>
        \A d \in JsonValues :
            sent.plainText = jsonStringify(d) => recv.ret = Ok(d)

C18_Witness ==
    /\ StringifiedDelivery("ts")
    /\ sent.op = "encrypt"
    /\ JsonTag(recv.ret.value) = -6
    /\ Len(recv.ret.value) = 3
    /\ recv.ret.ok

----------------------------------------------------------------------------
(* C19: what is encrypted *)

\* C19: for the same plaintext, key material and IV, the TypeScript and the
\* Dart encrypt return the same CipherText, and so do the two dhEncrypt on
\* a shared secret: both encrypt the UTF-8 bytes of the JSON string
\* serialization of the plaintext.
C19_SameCipherText ==
    /\ sent.op = "encrypt" =>
           encryptTS(sent.plainText, sent.material, sent.iv)
               = encryptDart(sent.plainText, sent.material, sent.iv)
    /\ (sent.op = "dhEncrypt" /\ sent.material \in SharedSecrets) =>
           dhEncryptTS(sent.plainText, sent.material, sent.iv)
               = dhEncryptDart(sent.plainText, sent.material, sent.iv)

\* what the TypeScript side returns on JSON.stringify(s) is what the Dart
\* side returns on s
StringifiedMatchesDart ==
    (sent.impl = "ts" /\ sent.op = "encrypt") =>
        \A str \in JsonStrings :
            sent.plainText = jsonStringify(str) =>
                sent.ret = encryptDart(str, sent.material, sent.iv)

----------------------------------------------------------------------------
(* C20: concurrent calls *)

\* C20: in every interleaving of the steps of concurrent generateDHKeyPair,
\* computeSharedSecret, encrypt and decrypt calls, a call that has returned
\* has returned the result it returns when it runs alone on the same
\* arguments, draws and clock value.
C20_NoInterference ==
    \A t \in Task :
        tasks[t].pc = "returned" => tasks[t].ret = alone(tasks[t].call)

\* two calls of the same operation on different arguments have both
\* returned, the second one having started before the first one finished
C20_Witness ==
    /\ \A t \in Task : tasks[t].pc = "returned"
    /\ tasks["t1"].call.op = "encrypt" /\ tasks["t2"].call.op = "encrypt"
    /\ tasks["t1"].call.password # tasks["t2"].call.password
    /\ tasks["t1"].ret.ok /\ tasks["t2"].ret.ok
    /\ tasks["t1"].ret # tasks["t2"].ret
    /\ frames["t1"] # frames["t2"]

----------------------------------------------------------------------------
(* C21: decoding of hex key strings *)

\* the integer computeSharedSecret works with for a key string:
\* _hexToBigInt(hex) / Buffer.from(hex, 'hex') handed to the DH object
keyAsInteger(impl, hex) ==
    IF impl = "dart" THEN hexToBigInt(hex)
    ELSE bufferToBigNum(bufferFromHex(hex))

\* the bytes validatePublicKey measures for a key string:
\* _hexToBytes(publicKey) / Buffer.from(publicKey, 'hex')
keyAsBytes(impl, hex) ==
    IF impl = "dart" THEN hexToBytes(hex) ELSE bufferFromHex(hex)

\* the integer a string of hexadecimal digits denotes
RECURSIVE DenotedInteger(_)
DenotedInteger(hex) ==
    IF Len(hex) = 0 THEN 0
    ELSE 16 * DenotedInteger(SubSeq(hex, 1, Len(hex) - 1))
             + HexDigitValue(hex[Len(hex)])

IsKeyNumeral(s) == Len(s) > 0 /\ IsHexString(s)

\* C21: the implementation that computeSharedSecret was called on decodes
\* each key string of hexadecimal digits, of odd length too, to the integer
\* the string denotes, as an integer and as bytes: no digit is dropped.
C21_HexKeyDecoded ==
    (secretCall.impl # None /\ IsKeyNumeral(secretCall.privateKey)
                            /\ IsKeyNumeral(secretCall.otherPublicKey)) =>
        \A hex \in {secretCall.privateKey, secretCall.otherPublicKey} :
            /\ keyAsInteger(secretCall.impl, hex) = DenotedInteger(hex)
            /\ bufferToBigNum(keyAsBytes(secretCall.impl, hex))
                   = DenotedInteger(hex)

\* the Dart side decodes the key strings of a call, one of odd length among
\* them, to the integers they denote
DartHexKeyDecoded ==
    /\ secretCall.impl = "dart"
    /\ IsKeyNumeral(secretCall.privateKey)
    /\ IsKeyNumeral(secretCall.otherPublicKey)
    /\ Len(secretCall.otherPublicKey) % 2 = 1
    /\ \A hex \in {secretCall.privateKey, secretCall.otherPublicKey} :
           /\ keyAsInteger("dart", hex) = DenotedInteger(hex)
           /\ bufferToBigNum(keyAsBytes("dart", hex)) = DenotedInteger(hex)

\* on the Dart side no key string is decoded to another integer
DartHexKeyAlwaysDecoded ==
    (secretCall.impl = "dart" /\ IsKeyNumeral(secretCall.privateKey)
                              /\ IsKeyNumeral(secretCall.otherPublicKey)) =>
        \A hex \in {secretCall.privateKey, secretCall.otherPublicKey} :
            /\ keyAsInteger("dart", hex) = DenotedInteger(hex)
            /\ bufferToBigNum(keyAsBytes("dart", hex)) = DenotedInteger(hex)

----------------------------------------------------------------------------
(* C22: the key of the password mode *)

\* the UTF-8 bytes of the first 32 characters of the lowercase hex encoding
\* of SHA512(UTF-8(password))
PasswordKeyRule(password) ==
    LET digestHex == bytesToHex(sha512(utf8Encode(password)))
    IN  utf8Encode(SubSeq(digestHex, 1, 32))

IsHexDigitKey(key) ==
    /\ Len(key) = 32
    /\ \A i \in 1..Len(key) : IsDigit(key[i]) \/ IsLowerHex(key[i])

\* the CipherText implementation impl makes of a plaintext under a key
sealWith(impl, key, iv, plainText) ==
    IF impl = "dart" THEN sealDart(key, iv, plainText)
    ELSE sealTS(key, iv, plainText)

\* C22: what encrypt returns is the encryption under the key made of the
\* first 32 hex digits of SHA512(UTF-8(password)), as their UTF-8 bytes; the
\* key has 32 bytes, each the code of a lowercase hex digit; and decrypt,
\* of either implementation, with the same password derives the same key:
\* the tag of the text verifies.
C22_PasswordKey ==
    /\ (sent.op = "encrypt" /\ sent.ret.ok) =>
           /\ IsHexDigitKey(passwordKey(sent.material))
           /\ passwordKey(sent.material) = PasswordKeyRule(sent.material)
           /\ sent.ret.value = sealWith(sent.impl,
                                        PasswordKeyRule(sent.material),
                                        sent.iv, sent.plainText)
    /\ (sent.op = "encrypt" /\ sent.ret.ok /\ recv.op = "decrypt"
           /\ recv.encryptedText = sent.ret.value
           /\ recv.material = sent.material) =>
           recv.ret.err # "AuthenticationError"

C22_Witness ==
    /\ sent.op = "encrypt" /\ sent.impl = "ts" /\ sent.ret.ok
    /\ sent.material = <<233>>
    /\ recv.op = "decrypt" /\ recv.impl = "dart"
    /\ recv.material = sent.material
    /\ recv.encryptedText = sent.ret.value
    /\ recv.ret.ok
    /\ IsHexDigitKey(passwordKey(sent.material))

----------------------------------------------------------------------------
(* C23: the key of the shared-secret mode *)

\* the bytes a string of an even number of hexadecimal digits denotes
HexDecoded(hex) ==
    [i \in 1..(Len(hex) \div 2) |->
        16 * HexDigitValue(hex[2 * i - 1]) + HexDigitValue(hex[2 * i])]

\* the key made of the first 32 hex digits of SHA512 of the bytes the
\* secret's digits denote
SecretKeyRule(sharedSecret) ==
    utf8Encode(SubSeq(bytesToHex(sha512(HexDecoded(sharedSecret))), 1, 32))

\* C23: for every secret computeSharedSecret has returned (64 or 128 hex
\* digits), dhEncrypt of either implementation returns the encryption under
\* the key derived from the bytes the secret's hex digits denote, not from
\* its characters: a key of 32 bytes, the same in both implementations; and
\* dhDecrypt of either implementation with that secret authenticates the
\* text.
C23_SecretKey ==
    (secretCall.ret.ok /\ sent.op = "dhEncrypt") =>
        LET S   == secretCall.ret.value
            key == SecretKeyRule(S)
        IN  /\ Len(S) \in {2 * SHA256Len, 2 * SHA512Len}
            /\ sent.material = S
            /\ IsHexDigitKey(key)
            /\ key # deriveKey(utf8Encode(S))
            /\ sent.ret = Ok(sealWith(sent.impl, key, sent.iv, sent.plainText))
            /\ recv.op = "dhDecrypt" =>
                   /\ recv.material = S
                   /\ recv.ret.err # "AuthenticationError"

C23_Witness ==
    /\ secretCall.ret.ok
    /\ secretCall.impl = "ts"
    /\ Len(secretCall.ret.value) = 2 * SHA256Len
    /\ sent.op = "dhEncrypt" /\ sent.impl = "dart"
    /\ sent.ret = Ok(sealDart(sharedSecretKeyTS(secretCall.ret.value),
                              sent.iv, sent.plainText))
    /\ recv.op = "dhDecrypt" /\ recv.impl = "ts"
    /\ recv.ret.ok

----------------------------------------------------------------------------
(* C24: the private key of a key pair generated with a password *)

\* SHA256(privateKeyBytes || SHA256(password || clock)) mod (prime - 1) + 1,
\* privateKeyBytes being the big-endian bytes of the random private key
EnhancedPrivateKeyRule(draw, password, clock) ==
    LET passwordHash == sha256(utf8Encode(password \o intToString(clock)))
        digest == sha256Group(bigNumToBuffer(draw) \o passwordHash)
    IN  (bufferToBigNum(digest) % (Prime - 1)) + 1

\* C24: generateDHKeyPair called with a password returns as privateKey the
\* hex digits of SHA256(privateKeyBytes || passwordHash) mod (prime - 1) + 1,
\* and the other implementation returns the same value for the same random
\* private key, password and clock value.
C24_EnhancedPrivateKey ==
    (genIn.impl # None /\ genIn.password # Absent) =>
        /\ DenotedInteger(keyPair.privateKey)
               = EnhancedPrivateKeyRule(genIn.draw, genIn.password, genIn.clock)
        /\ genIn.draw \in dartPrivateKeyDraws \cap tsPrivateKeyDraws =>
               DenotedInteger(generateDHKeyPairDart(genIn.password, genIn.draw,
                                                    genIn.clock).privateKey)
                   = DenotedInteger(generateDHKeyPairTS(genIn.password,
                                        genIn.draw, genIn.clock).privateKey)

\* the Dart implementation returns the value of the formula
DartEnhancedPrivateKey ==
    /\ genIn.impl = "dart" /\ genIn.password = <<233>>
    /\ DenotedInteger(keyPair.privateKey)
           = EnhancedPrivateKeyRule(genIn.draw, genIn.password, genIn.clock)

\* the TypeScript implementation returns the digest itself, one below the
\* value of the formula
TSEnhancedPrivateKeyIsDigest ==
    (genIn.impl = "ts" /\ Truthy(genIn.password)) =>
        DenotedInteger(keyPair.privateKey) + 1
            = EnhancedPrivateKeyRule(genIn.draw, genIn.password, genIn.clock)

----------------------------------------------------------------------------
(* C25: two generations with the same password *)

\* two calls of generateDHKeyPair of the same implementation with the same
\* password have returned
TwoGenerations ==
    /\ \A t \in Task : tasks[t].pc = "returned"
    /\ \A t \in Task : tasks[t].call.op = "generateDHKeyPair"
    /\ tasks["t1"].call.impl = tasks["t2"].call.impl
    /\ tasks["t1"].call.password = tasks["t2"].call.password
    /\ tasks["t1"].call.password # Absent

\* the private exponent the call's key pair is made of: the mix of the random
\* private key, the password and the clock value, or the random private key
\* where the implementation takes the password as absent
MixedExponent(call) ==
    IF call.impl = "ts" /\ ~Truthy(call.password) THEN call.draw
    ELSE EnhancedPrivateKeyRule(call.draw, call.password, call.clock)

\* C25 as stated: two generateDHKeyPair calls with the same password return
\* different key pairs each time.
C25_AlwaysDifferent ==
    TwoGenerations => tasks["t1"].ret.value # tasks["t2"].ret.value

\* C25 amended: two calls with the same password return the same key pair
\* exactly when the mix of random private key, password and clock value is
\* the same in both, as it is when the random private key and the clock
\* value are the same; with another mix they return another key pair.
C25_DifferentByMix ==
    TwoGenerations =>
        LET c1 == tasks["t1"].call
            c2 == tasks["t2"].call
            r1 == tasks["t1"].ret.value
            r2 == tasks["t2"].ret.value
        IN  /\ (r1 = r2) <=> (MixedExponent(c1) = MixedExponent(c2))
            /\ (r1.privateKey = r2.privateKey)
                   <=> (MixedExponent(c1) = MixedExponent(c2))
            /\ (c1.draw = c2.draw /\ c1.clock = c2.clock) => r1 = r2

\* the same password, the same clock value, another random private key and
\* another key pair
C25_Witness ==
    /\ TwoGenerations
    /\ tasks["t1"].call.impl = "dart"
    /\ tasks["t1"].call.password = <<233>>
    /\ tasks["t1"].call.clock = tasks["t2"].call.clock
    /\ tasks["t1"].call.draw # tasks["t2"].call.draw
    /\ tasks["t1"].ret.value.publicKey # tasks["t2"].ret.value.publicKey

\* the same password, the same random private key, another clock value and
\* another key pair
DifferentByClock ==
    /\ TwoGenerations
    /\ tasks["t1"].call.password = <<233>>
    /\ tasks["t1"].call.clock # tasks["t2"].call.clock
    /\ tasks["t1"].call.draw = tasks["t2"].call.draw
    /\ tasks["t1"].ret.value.publicKey # tasks["t2"].ret.value.publicKey

----------------------------------------------------------------------------
(* C26: segments that are not base64 *)

\* a text of exactly three segments, one of them not standard base64, has
\* been read
BadSegmentRead ==
    /\ recv.op # None
    /\ Len(split(recv.encryptedText)) = 3
    /\ \E k \in 1..3 : ~IsStandardBase64(split(recv.encryptedText)[k])

\* C26: decrypt and dhDecrypt of either implementation, called on a text of
\* exactly three segments one of which is not standard base64, raise
\* DecodeError and return no value.
C26_BadBase64Rejected == BadSegmentRead => recv.ret = Throw("DecodeError")

\* the Dart implementation raises DecodeError on a segment that has a
\* character of neither alphabet or a length that is no multiple of four
DartBadBase64Rejected ==
    /\ BadSegmentRead
    /\ recv.impl = "dart" /\ recv.op = "decrypt"
    /\ split(recv.encryptedText)[3] = <<81, 81>>
    /\ recv.ret = Throw("DecodeError")

\* the TypeScript implementation never raises DecodeError
TSNeverDecodeError == recv.impl = "ts" => recv.ret.err # "DecodeError"

----------------------------------------------------------------------------
(* C27: key strings with characters that are no hex digits *)

\* computeSharedSecret has been called on a privateKey or an otherPublicKey
\* with a character that is no hex digit
DamagedKeyCall ==
    /\ secretCall.impl # None
    /\ ~IsHexString(secretCall.privateKey)
           \/ ~IsHexString(secretCall.otherPublicKey)

\* C27: computeSharedSecret of either implementation, called with a
\* privateKey or an otherPublicKey that contains a character that is no hex
\* digit, raises DecodeError and returns no secret.
C27_NotHexKeyRejected == DamagedKeyCall => secretCall.ret = Throw("DecodeError")

\* the TypeScript implementation returns the secret of the digits before
\* the first character that is no hex digit
TruncatedKeySecret ==
    /\ secretCall.impl = "ts"
    /\ secretCall.privateKey = <<48, 51, 122, 122>>
    /\ secretCall.otherPublicKey = <<48, 52, 122, 122>>
    /\ secretCall.ret.ok
    /\ secretCall.ret
           = computeSharedSecretTS(<<48, 51>>, <<48, 52>>, secretCall.password)

\* the Dart implementation raises DecodeError on these keys
DartNotHexKeyRejected ==
    (DamagedKeyCall /\ secretCall.impl = "dart") =>
        secretCall.ret = Throw("DecodeError")

\* the TypeScript implementation never raises DecodeError
TSNeverDecodeErrorOnKeys ==
    secretCall.impl = "ts" => secretCall.ret.err # "DecodeError"

----------------------------------------------------------------------------
(* C28: the loop of generateDHKeyPair *)

\* C28: the loop of generateDHKeyPair draws a bounded number of values: once
\* MaxResample values have been drawn the call is not in the loop any more,
\* it has returned a key pair or failed with KeyGenerationFailure.
C28_BoundedResampling ==
    resample.pc = "loop" => resample.attempts < MaxResample

\* the call finishes in every run in which the loop keeps going
GenerationTerminates == <>(resample.pc = "done")

\* the call has left the loop at the second value drawn
LeftAtSecondDraw ==
    /\ resample.pc = "done" /\ resample.attempts = 2
    /\ keyPair = generateDHKeyPairDart(genIn.password, genIn.draw, genIn.clock)

----------------------------------------------------------------------------
(* C29: two encryptions of the same plaintext *)

\* two calls of the same operation, encrypt or dhEncrypt, of the same
\* implementation on the same plaintext and key material have returned
TwoEncryptions ==
    /\ \A t \in Task : tasks[t].pc = "returned" /\ tasks[t].ret.ok
    /\ tasks["t1"].call.op \in {"encrypt", "dhEncrypt"}
    /\ tasks["t1"].call.op = tasks["t2"].call.op
    /\ tasks["t1"].call.impl = tasks["t2"].call.impl
    /\ tasks["t1"].call.plainText = tasks["t2"].call.plainText
    /\ tasks["t1"].call.password = tasks["t2"].call.password

SameIvSameText ==
    /\ TwoEncryptions
    /\ tasks["t1"].call.op = "dhEncrypt" /\ tasks["t1"].call.impl = "ts"
    /\ tasks["t1"].call.iv = tasks["t2"].call.iv
    /\ tasks["t1"].ret = tasks["t2"].ret

----------------------------------------------------------------------------
(* C30: the boundary between encrypted data and auth tag *)

\* the Dart side has read a text of three segments that all decode
DartSegmentsRead ==
    /\ recv.impl = "dart"
    /\ Len(split(recv.encryptedText)) = 3
    /\ \A k \in 1..3 : base64DecodeDart(split(recv.encryptedText)[k]).ok

\* what the Dart side returns for the text read with the boundary at k
DartReadAt(k) ==
    IF recv.op = "decrypt"
    THEN decryptDart(resplit(recv.encryptedText, k), recv.material)
    ELSE dhDecryptDart(resplit(recv.encryptedText, k), recv.material)

\* C30: the Dart decrypt and dhDecrypt give the same result, value or error,
\* for all texts of three segments that have the same decoded IV and the
\* same concatenation of the decoded first and third segments, wherever the
\* boundary between the two lies, under the same key material.
C30_BoundaryIgnored ==
    DartSegmentsRead =>
        \A k \in 0..combinedLength(recv.encryptedText) :
            DartReadAt(k) = recv.ret

\* a text whose third segment holds 10 bytes has been read to the plaintext
C30_Witness ==
    /\ DartSegmentsRead
    /\ recv.op = "dhDecrypt"
    /\ Len(base64DecodeDart(split(recv.encryptedText)[3]).value) = 10
    /\ recv.ret = Ok(<<97>>)

\* the TypeScript side does not read a text whose third segment holds 10
\* bytes
TSBoundaryChecked ==
    (/\ recv.impl = "ts"
     /\ Len(bufferFromBase64(split(recv.encryptedText)[3])) = 10)
        => ~recv.ret.ok

====
